---- MODULE Spec2Model ----
(***************************************************************************)
(* Robot-Builder: the builder's scene store (zustand store, scene graph,   *)
(* joints, poses) and the simulator's kinematics engine (forward           *)
(* kinematics and the CCD inverse-kinematics solver).                      *)
(*                                                                         *)
(* Conventions of the model                                                *)
(*  - Lengths are integers in millimetres (the code uses metres), joint    *)
(*    values integers in degrees / millimetres.                            *)
(*  - A JavaScript number is an integer or NaN (the result of Number() on  *)
(*    non-numeric input); comparisons and Math.min/Math.max follow the     *)
(*    IEEE rules for NaN.                                                  *)
(*  - A JavaScript string used as an id or a name is the record            *)
(*    [base, num, pad]: the text base, the numeric suffix "-num" (num = 0: *)
(*    no suffix) and whether it carries surrounding white space.           *)
(*  - Display-only fields (node name, color, notes, timestamps) are not    *)
(*    modelled.                                                            *)
(***************************************************************************)
EXTENDS Integers, Sequences, FiniteSets, TLC

\* ------------------------------------------------------------------ bounds
\* cap on the id counter in the scene-graph specification
MaxTreeIds == 7
\* cap on the id counter in the joint-value specification
MaxValueIds == 3
\* cap on the id counter in the joint-name specification
MaxNameIds == 4
\* cap on the number of joints in the scene
MaxJoints == 2
\* cap on the simulation clock, in quarter seconds
MaxSimTime == 2
\* cap on the number of network events logged
MaxLogEvents == 1
\* cap on the entries recorded of the path gatherPath builds: the loop goes on past it
MaxPathLength == 6
\* cap on the number of logNetworkEvent calls in the network-log specification
MaxLogCalls == 203
\* cap on the id counter in the link-import specification
MaxImportIds == 3
\* cap on the id counter in the remote-value specification
MaxRemoteIds == 3
\* cap on the number of remote updates that change a joint
MaxRemoteEvents == 2

\* kinematics queries on one scene
MaxQueries == 2

\* degrees between the joint values sampled within a joint's limits
AngleStep == 15

\* ------------------------------------------------------- JavaScript numbers
\* the value Number() yields for non-numeric input
NaN == -999999

IsNum(a) == a # NaN

\* a <= b in JavaScript: false when either side is NaN
Lte(a, b) == IsNum(a) /\ IsNum(b) /\ a <= b

Gt(a, b) == IsNum(a) /\ IsNum(b) /\ a > b

MathMax(a, b) == IF ~IsNum(a) \/ ~IsNum(b) THEN NaN ELSE IF a >= b THEN a ELSE b

MathMin(a, b) == IF ~IsNum(a) \/ ~IsNum(b) THEN NaN ELSE IF a <= b THEN a ELSE b

Sub(a, b) == IF ~IsNum(a) \/ ~IsNum(b) THEN NaN ELSE a - b

MathAbs(a) == IF ~IsNum(a) THEN NaN ELSE IF a < 0 THEN -a ELSE a

\* Math.min(Math.max(value, min), max)
clampLoOnly(value, min, max) == MathMax(value, min)
clamp(value, min, max) == MathMin(MathMax(value, min), max)

\* limits[0] <= limits[1] ? [limits[0], limits[1]] : [limits[1], limits[0]]
normalizeLimits(limits) ==
    IF Lte(limits[1], limits[2]) THEN <<limits[1], limits[2]>> ELSE <<limits[2], limits[1]>>

\* ------------------------------------------------------- JavaScript strings
Str(base, num) == [base |-> base, num |-> num, pad |-> FALSE]

Padded(base, num) == [base |-> base, num |-> num, pad |-> TRUE]

\* the value undefined
Undefined == [base |-> "", num |-> -1, pad |-> FALSE]

EmptyStr == Str("", 0)

\* String.prototype.trim
Trim(s) == IF s = Undefined THEN s ELSE [s EXCEPT !.pad = FALSE]

\* truthiness of a string-or-undefined value
Truthy(s) == s # Undefined /\ s # EmptyStr

\* a ?? b
Coalesce(a, b) == IF a = Undefined THEN b ELSE a

\* value.match(/-(\d+)$/): the numeric suffix, 0 without one
extractNumericSuffix(value) ==
    IF value = Undefined \/ value.pad THEN 0 ELSE value.num

Max2(a, b) == IF a >= b THEN a ELSE b

Range(s) == {s[i] : i \in 1..Len(s)}

RECURSIVE SeqFilter(_, _)
\* Array.prototype.filter((entry) => entry !== x)
SeqFilter(s, x) ==
    IF s = <<>> THEN <<>>
    ELSE IF Head(s) = x THEN SeqFilter(Tail(s), x)
    ELSE <<Head(s)>> \o SeqFilter(Tail(s), x)

\* ---------------------------------------------------------------- geometry

\* createDefaultGeometry(kind), lengths in millimetres
createDefaultGeometry(kind) ==
    CASE kind = "box" -> [kind |-> "box", width |-> 300, height |-> 400, depth |-> 300]
      [] kind = "cylinder" -> [kind |-> "cylinder", radius |-> 150, height |-> 400]
      [] kind = "sphere" -> [kind |-> "sphere", radius |-> 180]
      [] kind = "cone" -> [kind |-> "cone", radius |-> 160, height |-> 380]
      [] OTHER -> [kind |-> "capsule", radius |-> 120, length |-> 280]

\* getGeometryBounds(geometry).height
getGeometryHeight(geometry) ==
    CASE geometry.kind = "box" -> geometry.height
      [] geometry.kind = "cylinder" -> geometry.height
      [] geometry.kind = "sphere" -> geometry.radius * 2
      [] geometry.kind = "cone" -> geometry.height
      [] geometry.kind = "capsule" -> geometry.length + geometry.radius * 2
      [] OTHER -> 300

\* getDefaultJointPivot: [0, 0, -bounds.height / 2]
getDefaultJointPivot(geometry) == <<0, 0, -(getGeometryHeight(geometry) \div 2)>>

\* computeMountOffset: [0, 0, parentHeight / 2 + childHeight / 2 + 0.05]
computeMountOffset(parent, child) ==
    <<0, 0, getGeometryHeight(parent.geometry) \div 2
            + getGeometryHeight(child.geometry) \div 2 + 50>>

\* ------------------------------------------------------------- store state
VARIABLES
    nodes,               \* Record<string, LinkNode>: key -> node
    nodeOrder,           \* the keys of nodes in insertion order (Object.keys)
    rootId,
    selectedId,
    connectMode,
    connectSourceId,
    poses,               \* PoseDefinition[]
    networkLog,          \* NetworkEvent[]
    simulationPlaying,
    simulationTime,      \* in quarter seconds
    idCounter,           \* module-level counter behind createId
    networkEventCounter, \* module-level counter behind logNetworkEvent
    last,                \* history: the latest call of an operation under study, with
                         \* its arguments; any other call resets it to OtherOp
    ik                   \* the simulator's solveIkForNode call in progress: its
                         \* arguments, locals and position, and the heap of joint objects

storeVars == <<nodes, nodeOrder, rootId, selectedId, connectMode, connectSourceId, poses,
               networkLog, simulationPlaying, simulationTime, idCounter,
               networkEventCounter, last>>

vars == <<storeVars, ik>>

\* the history value after a call that no property observes
OtherOp == [op |-> "other"]

\* obj[key] = value on a Record
Put(map, key, value) ==
    [k \in (DOMAIN map) \cup {key} |-> IF k = key THEN value ELSE map[k]]

\* delete obj[key]
Del(map, key) == [k \in (DOMAIN map) \ {key} |-> map[k]]

\* { ...a, ...b } on objects
Spread(a, b) ==
    [k \in (DOMAIN a) \cup (DOMAIN b) |-> IF k \in DOMAIN b THEN b[k] ELSE a[k]]

Has(map, key) == key \in DOMAIN map

\* A scene's nodes are a plain object, and nodes[id] also finds what every object
\* inherits: for a name such as 'constructor', 'toString' or '__proto__' that is no
\* node of its own, nodes[id] is a function or an object, truthy, with none of a node's
\* fields. The one name stands for all of them.
ObjectPrototypeKeys == {Str("constructor", 0)}

\* nodes[id] is truthy and is no node
Inherited(ns, id) == ~Has(ns, id) /\ id \in ObjectPrototypeKeys

\* createId(prefix) after the counter was advanced to n
createId(prefix, n) == Str(prefix, n)

\* all joints of all nodes, as [key, index, joint] records
AllJoints(ns) ==
    UNION {{[key |-> k, index |-> i, joint |-> ns[k].joints[i]] :
              i \in 1..Len(ns[k].joints)} : k \in DOMAIN ns}

\* ------------------------------------------------------------- joint names
\* gatherJointNames(nodes, ignoreJointId)
gatherJointNames(ns, ignoreJointId) ==
    {e.joint.name : e \in {x \in AllJoints(ns) :
        /\ ~(Truthy(ignoreJointId) /\ x.joint.id = ignoreJointId)
        /\ Truthy(x.joint.name)}}

RECURSIVE nextJointIndex(_, _)
nextJointIndex(used, index) ==
    IF Str("joint", index) \in used THEN nextJointIndex(used, index + 1) ELSE index

\* nextJointNameFromUsed(used): the first joint-N not in used
nextJointNameFromUsed(used) == Str("joint", nextJointIndex(used, 1))

\* getNextJointName(nodes)
getNextJointName(ns) == nextJointNameFromUsed(gatherJointNames(ns, Undefined))

\* getNextJointNameFor(nodes, jointId)
getNextJointNameFor(ns, jointId) == nextJointNameFromUsed(gatherJointNames(ns, jointId))

\* the result null of sanitizeJointName
Null == [base |-> "", num |-> -2, pad |-> FALSE]

\* sanitizeJointName(nodes, proposed, jointId, currentName)
sanitizeJointName(ns, proposed, jointId, currentName) ==
    LET trimmed == Trim(proposed) IN
    IF trimmed = EmptyStr THEN currentName
    ELSE IF trimmed \in gatherJointNames(ns, jointId) THEN Null
    ELSE trimmed

\* Array.prototype.findIndex((joint) => joint.id === jointId); 0 stands for -1
findJointIndex(joints, jointId) ==
    IF \E i \in 1..Len(joints) : joints[i].id = jointId
    THEN CHOOSE i \in 1..Len(joints) :
            /\ joints[i].id = jointId
            /\ \A k \in 1..(i - 1) : joints[k].id # jointId
    ELSE 0

\* poses.map(pose => ({...pose, values: {...pose.values, [name]: value}}))
posesWithValue(ps, name, value) ==
    [i \in 1..Len(ps) |-> [ps[i] EXCEPT !.values = Put(ps[i].values, name, value)]]

\* the rename of a pose key in updateJoint
posesRenamed(ps, oldName, newName) ==
    [i \in 1..Len(ps) |->
        IF ~Has(ps[i].values, oldName) THEN ps[i]
        ELSE [ps[i] EXCEPT !.values =
                Put(Del(ps[i].values, oldName), newName, ps[i].values[oldName])]]

\* poses.map: delete values[name]
posesWithout(ps, names) ==
    [i \in 1..Len(ps) |->
        [ps[i] EXCEPT !.values = [k \in (DOMAIN ps[i].values) \ names |-> ps[i].values[k]]]]

\* the position of a new key in Object.keys: existing keys keep their place
PutOrder(order, key) == IF key \in Range(order) THEN order ELSE Append(order, key)

\* ------------------------------------------------------------ store: Init
\* createDefaultState(): the root link 'link-1'
DefaultRootId == Str("link", 1)

DefaultRootNode ==
    [id |-> DefaultRootId,
     geometry |-> [kind |-> "box", width |-> 500, height |-> 200, depth |-> 500],
     parentId |-> Undefined,
     children |-> <<>>,
     baseOffset |-> <<0, 0, 0>>,
     joints |-> <<>>]

InitStore ==
    /\ nodes = [k \in {DefaultRootId} |-> DefaultRootNode]
    /\ nodeOrder = <<DefaultRootId>>
    /\ rootId = DefaultRootId
    /\ selectedId = DefaultRootId
    /\ connectMode = FALSE
    /\ connectSourceId = Undefined
    /\ poses = <<>>
    /\ networkLog = <<>>
    /\ simulationPlaying = FALSE
    /\ simulationTime = 0
    /\ idCounter = 1
    /\ networkEventCounter = 0
    /\ last = [op |-> "init"]

\* ------------------------------------------------------- store: operations
\* addLink(kind)
addLink(kind) ==
    LET parentId == Coalesce(selectedId, rootId)
        geometry == createDefaultGeometry(kind)
        jointId == createId("joint", idCounter + 1)
        newId == createId("link", idCounter + 2)
        parent == nodes[parentId]
        offsetZ == getGeometryHeight(parent.geometry) \div 2
                   + getGeometryHeight(geometry) \div 2 + 50
        initialJoint ==
            [id |-> jointId, type |-> "rotational", axis |-> "z", limits |-> <<-90, 90>>,
             currentValue |-> 0, name |-> getNextJointName(nodes),
             externalControl |-> FALSE, pivot |-> getDefaultJointPivot(geometry)]
        newNode ==
            [id |-> newId, geometry |-> geometry, parentId |-> parentId, children |-> <<>>,
             baseOffset |-> <<0, 0, offsetZ>>, joints |-> <<initialJoint>>]
    IN
    /\ last' = OtherOp
    /\ IF ~Has(nodes, parentId)
       THEN UNCHANGED <<nodes, nodeOrder, rootId, selectedId, connectMode, connectSourceId,
                        poses, idCounter>>
       ELSE /\ idCounter' = idCounter + 2
            /\ nodes' = Put(Put(nodes, newId, newNode), parentId,
                            [parent EXCEPT !.children = Append(parent.children, newId)])
            /\ nodeOrder' = PutOrder(nodeOrder, newId)
            /\ selectedId' = newId
            /\ connectMode' = FALSE
            /\ connectSourceId' = Undefined
            /\ poses' = posesWithValue(poses, initialJoint.name, initialJoint.currentValue)
            /\ UNCHANGED rootId
    /\ UNCHANGED <<networkLog, simulationPlaying, simulationTime, networkEventCounter>>

\* isAncestor(nodes, ancestorId, childId): walks parentId upwards from childId
RECURSIVE isAncestorFrom(_, _, _, _)
isAncestorFrom(ns, ancestorId, current, fuel) ==
    IF ~Truthy(current) \/ fuel = 0 THEN FALSE
    ELSE IF current = ancestorId THEN TRUE
    ELSE isAncestorFrom(ns, ancestorId,
                        IF Has(ns, current) THEN ns[current].parentId ELSE Undefined,
                        fuel - 1)

isAncestorDirectOnly(ns, ancestorId, childId) ==
    Has(ns, childId) /\ ns[childId].parentId = ancestorId
isAncestorSwapped(ns, ancestorId, childId) ==
    isAncestorFrom(ns, childId,
                   IF Has(ns, ancestorId) THEN ns[ancestorId].parentId ELSE Undefined,
                   Cardinality(DOMAIN ns) + 1)
\* (on a parent chain that loops the code does not return; the walk is cut off here)
isAncestor(ns, ancestorId, childId) ==
    isAncestorFrom(ns, ancestorId,
                   IF Has(ns, childId) THEN ns[childId].parentId ELSE Undefined,
                   Cardinality(DOMAIN ns) + 1)

\* the state update of completeConnection(targetId): <<nodes, selectedId>> after it
completeConnectionResult(targetId) ==
    LET childId == connectSourceId IN
    IF childId = targetId \/ ~Has(nodes, childId) \/ ~Has(nodes, targetId)
    THEN <<nodes, selectedId>>
    ELSE LET childNode == nodes[childId]
             targetNode == nodes[targetId]
         IN
         IF childId = rootId \/ targetId = childNode.parentId
         THEN <<nodes, childId>>
         ELSE IF isAncestor(nodes, childId, targetId)
         THEN <<nodes, childId>>
         ELSE LET detached ==
                     IF Truthy(childNode.parentId) /\ Has(nodes, childNode.parentId)
                     THEN Put(nodes, childNode.parentId,
                              [nodes[childNode.parentId] EXCEPT
                                 !.children = SeqFilter(@, childId)])
                     ELSE nodes
                  moved == Put(detached, childId,
                               [childNode EXCEPT
                                  !.parentId = targetId,
                                  !.baseOffset = computeMountOffset(targetNode, childNode)])
              IN <<Put(moved, targetId,
                       [targetNode EXCEPT !.children = Append(targetNode.children, childId)]),
                   childId>>

\* completeConnection(targetId)
completeConnectionUpdate(targetId) ==
    IF ~Truthy(connectSourceId)
    THEN UNCHANGED <<nodes, selectedId, connectMode, connectSourceId>>
    ELSE /\ nodes' = completeConnectionResult(targetId)[1]
         /\ selectedId' = completeConnectionResult(targetId)[2]
         /\ connectMode' = FALSE
         /\ connectSourceId' = Undefined

completeConnection(targetId) ==
    /\ last' = [op |-> "completeConnection", targetId |-> targetId,
                sourceId |-> connectSourceId,
                moved |-> Truthy(connectSourceId)
                          /\ completeConnectionResult(targetId)[1] # nodes]
    /\ completeConnectionUpdate(targetId)
    /\ UNCHANGED <<nodeOrder, rootId, poses, networkLog, simulationPlaying, simulationTime,
                   idCounter, networkEventCounter>>

\* selectNode(id)
selectNode(id) ==
    /\ IF connectMode
       THEN IF ~Truthy(id)
            THEN /\ selectedId' = Undefined
                 /\ connectMode' = FALSE
                 /\ connectSourceId' = Undefined
                 /\ UNCHANGED nodes
                 /\ last' = OtherOp
            ELSE IF ~Truthy(connectSourceId)
            THEN /\ selectedId' = id
                 /\ connectSourceId' = id
                 /\ UNCHANGED <<nodes, connectMode>>
                 /\ last' = OtherOp
            ELSE IF id = connectSourceId
            THEN /\ selectedId' = id
                 /\ UNCHANGED <<nodes, connectMode, connectSourceId>>
                 /\ last' = OtherOp
            ELSE /\ completeConnectionUpdate(id)
                 /\ last' = [op |-> "completeConnection", targetId |-> id,
                             sourceId |-> connectSourceId,
                             moved |-> completeConnectionResult(id)[1] # nodes]
       ELSE /\ selectedId' = id
            /\ UNCHANGED <<nodes, connectMode, connectSourceId>>
            /\ last' = OtherOp
    /\ UNCHANGED <<nodeOrder, rootId, poses, networkLog, simulationPlaying, simulationTime,
                   idCounter, networkEventCounter>>

\* startConnection()
startConnection ==
    /\ last' = OtherOp
    /\ IF ~Truthy(selectedId)
       THEN UNCHANGED <<connectMode, connectSourceId>>
       ELSE /\ connectMode' = TRUE
            /\ connectSourceId' = selectedId
    /\ UNCHANGED <<nodes, nodeOrder, rootId, selectedId, poses, networkLog, simulationPlaying,
                   simulationTime, idCounter, networkEventCounter>>

\* cancelConnection()
cancelConnection ==
    /\ last' = OtherOp
    /\ connectMode' = FALSE
    /\ connectSourceId' = Undefined
    /\ UNCHANGED <<nodes, nodeOrder, rootId, selectedId, poses, networkLog, simulationPlaying,
                   simulationTime, idCounter, networkEventCounter>>

\* the loop of removeLink: pops toRemove (a stack), deletes the node, pushes its children
RECURSIVE removeSubtree(_, _, _)
removeSubtree(ns, toRemove, removedJointNames) ==
    IF toRemove = <<>> THEN [nodes |-> ns, removedJointNames |-> removedJointNames]
    ELSE LET currentId == toRemove[Len(toRemove)]
             rest == SubSeq(toRemove, 1, Len(toRemove) - 1)
         IN IF ~Truthy(currentId) \/ ~Has(ns, currentId)
            THEN removeSubtree(ns, rest, removedJointNames)
            ELSE removeSubtree(Del(ns, currentId),
                               rest \o ns[currentId].children,
                               removedJointNames \cup
                                 {ns[currentId].joints[i].name :
                                    i \in 1..Len(ns[currentId].joints)})

RECURSIVE orderWithin(_, _)
\* Object.keys after the deletions
orderWithin(order, keys) ==
    IF order = <<>> THEN <<>>
    ELSE IF Head(order) \in keys THEN <<Head(order)>> \o orderWithin(Tail(order), keys)
    ELSE orderWithin(Tail(order), keys)

\* prunePoseValues(poses, validNames)
prunePoseValues(ps, validNames) ==
    [i \in 1..Len(ps) |->
        [ps[i] EXCEPT !.values =
            [k \in (DOMAIN ps[i].values) \cap validNames |-> ps[i].values[k]]]]

\* removeLink(id)
removeLinkDetach(ns, parentId, id) ==
    IF Truthy(parentId) /\ Has(ns, parentId)
    THEN Put(ns, parentId, [ns[parentId] EXCEPT !.children = SeqFilter(@, id)])
    ELSE ns

removeLink(id) ==
    /\ last' = OtherOp
    /\ IF id = rootId
       THEN UNCHANGED <<nodes, nodeOrder, selectedId, poses>>
       ELSE LET removed == removeSubtree(nodes, <<id>>, {})
                parentId == IF Has(nodes, id) THEN nodes[id].parentId ELSE Undefined
                remaining == removeLinkDetach(removed.nodes, parentId, id)
            IN /\ nodes' = remaining
               /\ nodeOrder' = orderWithin(nodeOrder, DOMAIN remaining)
               /\ selectedId' = Coalesce(parentId, rootId)
               /\ poses' = IF removed.removedJointNames # {}
                           THEN prunePoseValues(posesWithout(poses, removed.removedJointNames),
                                                gatherJointNames(remaining, Undefined))
                           ELSE poses
    /\ connectMode' = FALSE
    /\ connectSourceId' = Undefined
    /\ UNCHANGED <<rootId, networkLog, simulationPlaying, simulationTime, idCounter,
                   networkEventCounter>>

\* updateJoint(nodeId, jointId, patch): the joint written at position index
updateJointNext(ns, currentJoint, jointId, patch) ==
    LET restPatch == [k \in (DOMAIN patch) \ {"name"} |-> patch[k]]
        nextName ==
            IF Has(patch, "name")
            THEN LET sanitized == sanitizeJointName(ns, patch.name, jointId, currentJoint.name)
                 IN IF sanitized = Null THEN getNextJointNameFor(ns, jointId) ELSE sanitized
            ELSE currentJoint.name
        limits == IF Has(restPatch, "limits") THEN restPatch.limits ELSE currentJoint.limits
        normalizedLimits == normalizeLimits(limits)
        valueToClamp == IF Has(restPatch, "currentValue") THEN restPatch.currentValue
                        ELSE currentJoint.currentValue
        newValue == clamp(valueToClamp, normalizedLimits[1], normalizedLimits[2])
    IN [Spread(currentJoint, restPatch) EXCEPT
          !.limits = normalizedLimits,
          !.currentValue = newValue,
          !.pivot = IF Has(restPatch, "pivot") THEN restPatch.pivot ELSE currentJoint.pivot,
          !.name = nextName]

updateJoint(nodeId, jointId, patch) ==
    LET index == IF Has(nodes, nodeId) THEN findJointIndex(nodes[nodeId].joints, jointId) ELSE 0
    IN
    /\ last' = IF index = 0 THEN OtherOp ELSE [op |-> "updateJoint"]
    /\ IF index = 0
       THEN UNCHANGED <<nodes, poses>>
       ELSE LET node == nodes[nodeId]
                currentJoint == node.joints[index]
                nextJoint == updateJointNext(nodes, currentJoint, jointId, patch)
            IN /\ nodes' = Put(nodes, nodeId, [node EXCEPT !.joints[index] = nextJoint])
               /\ poses' = IF nextJoint.name # currentJoint.name
                           THEN posesRenamed(poses, currentJoint.name, nextJoint.name)
                           ELSE poses
    /\ UNCHANGED <<nodeOrder, rootId, selectedId, connectMode, connectSourceId, networkLog,
                   simulationPlaying, simulationTime, idCounter, networkEventCounter>>

\* addJoint(nodeId, type)
addJoint(nodeId, type) ==
    /\ last' = OtherOp
    /\ IF ~Has(nodes, nodeId)
       THEN UNCHANGED <<nodes, selectedId, poses, idCounter>>
       ELSE LET node == nodes[nodeId]
                limits == IF type = "linear" THEN <<0, 150>> ELSE <<-90, 90>>
                jointName == getNextJointName(nodes)
                currentValue == IF type = "linear" THEN limits[1] ELSE 0
                nextJoint ==
                    [id |-> createId("joint", idCounter + 1), type |-> type, axis |-> "z",
                     limits |-> limits, currentValue |-> currentValue, name |-> jointName,
                     externalControl |-> FALSE, pivot |-> getDefaultJointPivot(node.geometry)]
            IN /\ idCounter' = idCounter + 1
               /\ nodes' = Put(nodes, nodeId, [node EXCEPT !.joints = Append(@, nextJoint)])
               /\ selectedId' = nodeId
               /\ poses' = posesWithValue(poses, jointName, currentValue)
    /\ UNCHANGED <<nodeOrder, rootId, connectMode, connectSourceId, networkLog,
                   simulationPlaying, simulationTime, networkEventCounter>>

RECURSIVE jointsWithoutId(_, _)
\* node.joints.filter((joint) => joint.id !== jointId)
jointsWithoutId(joints, jointId) ==
    IF joints = <<>> THEN <<>>
    ELSE IF Head(joints).id = jointId THEN jointsWithoutId(Tail(joints), jointId)
    ELSE <<Head(joints)>> \o jointsWithoutId(Tail(joints), jointId)

\* removeJoint(nodeId, jointId)
removeJoint(nodeId, jointId) ==
    /\ last' = OtherOp
    /\ IF ~Has(nodes, nodeId)
       THEN UNCHANGED <<nodes, poses>>
       ELSE LET node == nodes[nodeId]
                index == findJointIndex(node.joints, jointId)
                nextJoints == jointsWithoutId(node.joints, jointId)
            IN IF Len(nextJoints) = Len(node.joints)
               THEN UNCHANGED <<nodes, poses>>
               ELSE /\ nodes' = Put(nodes, nodeId, [node EXCEPT !.joints = nextJoints])
                    /\ poses' = posesWithout(poses, {node.joints[index].name})
    /\ UNCHANGED <<nodeOrder, rootId, selectedId, connectMode, connectSourceId, networkLog,
                   simulationPlaying, simulationTime, idCounter, networkEventCounter>>

\* |a - b| < 1e-6 on lengths held in millimetres
NearlyEqual(a, b) == IsNum(a) /\ IsNum(b) /\ a = b

\* updateNode(id, patch)
updateNode(id, patch) ==
    /\ last' = OtherOp
    /\ IF ~Has(nodes, id)
       THEN UNCHANGED nodes
       ELSE LET node == nodes[id]
                spread == [Spread(node, patch) EXCEPT
                             !.baseOffset = IF Has(patch, "baseOffset") THEN patch.baseOffset
                                            ELSE node.baseOffset]
                nextGeometry == Spread(node.geometry, patch.geometry)
                previousDefaultPivot == getDefaultJointPivot(node.geometry)
                nextDefaultPivot == getDefaultJointPivot(nextGeometry)
                nextNode ==
                    IF Has(patch, "geometry")
                    THEN [spread EXCEPT
                            !.geometry = nextGeometry,
                            !.joints = [i \in 1..Len(node.joints) |->
                                IF \A c \in 1..3 :
                                     NearlyEqual(node.joints[i].pivot[c], previousDefaultPivot[c])
                                THEN [node.joints[i] EXCEPT !.pivot = nextDefaultPivot]
                                ELSE node.joints[i]]]
                    ELSE spread
                withNode == Put(nodes, id, nextNode)
            IN nodes' =
                 IF Has(patch, "geometry")
                 THEN [k \in DOMAIN withNode |->
                         IF k \in Range(node.children) /\ Has(nodes, k)
                         THEN [nodes[k] EXCEPT
                                 !.baseOffset = <<nodes[k].baseOffset[1], nodes[k].baseOffset[2],
                                                  computeMountOffset(nextNode, nodes[k])[3]>>]
                         ELSE withNode[k]]
                 ELSE withNode
    /\ UNCHANGED <<nodeOrder, rootId, selectedId, connectMode, connectSourceId, poses,
                   networkLog, simulationPlaying, simulationTime, idCounter,
                   networkEventCounter>>

\* toggleExternalControl(nodeId, jointId, enabled)
toggleExternalControl(nodeId, jointId, enabled) ==
    LET index == IF Has(nodes, nodeId) THEN findJointIndex(nodes[nodeId].joints, jointId) ELSE 0
    IN
    /\ last' = OtherOp
    /\ IF index = 0
       THEN UNCHANGED nodes
       ELSE nodes' = [nodes EXCEPT ![nodeId].joints[index].externalControl = enabled]
    /\ UNCHANGED <<nodeOrder, rootId, selectedId, connectMode, connectSourceId, poses,
                   networkLog, simulationPlaying, simulationTime, idCounter,
                   networkEventCounter>>

\* a !== b on numbers (NaN differs from itself)
NotSame(a, b) == a # b \/ ~IsNum(a)

\* a writer that consults no joint's externalControl flag
jointWriteUngated(mode, joint, values, source) ==
    IF ~Has(values, joint.name)
    THEN [changed |-> FALSE, joint |-> joint]
    ELSE LET clamped == clamp(values[joint.name], joint.limits[1], joint.limits[2])
         IN IF NotSame(clamped, joint.currentValue)
            THEN [changed |-> TRUE, joint |-> [joint EXCEPT !.currentValue = clamped]]
            ELSE [changed |-> FALSE, joint |-> joint]

\* the joint a values map writes, per writer:
\*   "interpolated": applyInterpolatedJointValues, "remote": applyRemoteJointValues,
\*   "pose": applyPose.  [changed, joint]
jointWrite(mode, joint, values, source) ==
    IF mode = "remote" /\ source = "tcp" /\ ~joint.externalControl
    THEN [changed |-> FALSE, joint |-> joint]
    ELSE IF ~Has(values, joint.name)
    THEN [changed |-> FALSE, joint |-> joint]
    ELSE LET clamped == clamp(values[joint.name], joint.limits[1], joint.limits[2])
             differs == IF mode = "interpolated"
                        THEN Gt(MathAbs(Sub(clamped, joint.currentValue)), 0)
                        ELSE NotSame(clamped, joint.currentValue)
         IN IF differs
            THEN [changed |-> TRUE, joint |-> [joint EXCEPT !.currentValue = clamped]]
            ELSE [changed |-> FALSE, joint |-> joint]

\* the last position in joints whose write changed the joint named n
lastChangedIndex(joints, written, n) ==
    CHOOSE i \in 1..Len(joints) :
        /\ written[i].changed /\ joints[i].name = n
        /\ \A k \in (i + 1)..Len(joints) : ~(written[k].changed /\ joints[k].name = n)

RECURSIVE applyValuesFrom(_, _, _, _, _, _)
\* for (const node of Object.values(state.nodes)) { ... updated[node.id] = {...node, joints} }
\* acc: [nodes, order, changes]
applyValuesFrom(ns, keys, acc, mode, values, source) ==
    IF keys = <<>> THEN acc
    ELSE LET node == ns[Head(keys)]
             written == [i \in 1..Len(node.joints) |->
                            jointWrite(mode, node.joints[i], values, source)]
             nodeChanged == \E i \in 1..Len(node.joints) : written[i].changed
             joints == [i \in 1..Len(node.joints) |-> written[i].joint]
             changedNames == {node.joints[i].name : i \in {x \in 1..Len(node.joints) :
                                                              written[x].changed}}
             next ==
                IF nodeChanged
                THEN [nodes |-> Put(acc.nodes, node.id, [node EXCEPT !.joints = joints]),
                      order |-> PutOrder(acc.order, node.id),
                      changes |-> [n \in (DOMAIN acc.changes) \cup changedNames |->
                                     IF n \in changedNames
                                     THEN joints[lastChangedIndex(node.joints, written, n)]
                                            .currentValue
                                     ELSE acc.changes[n]]]
                ELSE acc
         IN applyValuesFrom(ns, Tail(keys), next, mode, values, source)

applyValues(mode, values, source) ==
    applyValuesFrom(nodes, nodeOrder, [nodes |-> nodes, order |-> nodeOrder, changes |-> <<>>],
                    mode, values, source)
\* (changes starts as the empty Record: the function of empty domain)

\* the log keeps the last 200 events
NetworkLogLimit == 200

\* [...log, entry].slice(-200)
LastOf(log, n) == IF Len(log) <= n THEN log ELSE SubSeq(log, Len(log) - n + 1, Len(log))

\* a log that keeps every event
logNetworkEventUncapped(direction, values, source) ==
    /\ networkEventCounter' = networkEventCounter + 1
    /\ networkLog' = Append(networkLog,
                            [id |-> networkEventCounter + 1, direction |-> direction,
                             values |-> values, source |-> source])

\* logNetworkEvent(direction, values, source), as called from the store's own operations
logNetworkEventUpdate(direction, values, source) ==
    /\ networkEventCounter' = networkEventCounter + 1
    /\ networkLog' = LastOf(Append(networkLog,
                                   [id |-> networkEventCounter + 1, direction |-> direction,
                                    values |-> values, source |-> source]),
                            NetworkLogLimit)

\* applyInterpolatedJointValues(values)
applyInterpolatedJointValues(values) ==
    LET result == applyValues("interpolated", values, "playback") IN
    /\ last' = OtherOp
    /\ nodes' = result.nodes
    /\ nodeOrder' = result.order
    /\ UNCHANGED <<rootId, selectedId, connectMode, connectSourceId, poses, networkLog,
                   simulationPlaying, simulationTime, idCounter, networkEventCounter>>

\* applyRemoteJointValues(values, source)
applyRemoteJointValues(values, source) ==
    LET result == applyValues("remote", values, source) IN
    /\ last' = OtherOp
    /\ nodes' = result.nodes
    /\ nodeOrder' = result.order
    /\ IF DOMAIN result.changes # {}
       THEN logNetworkEventUpdate("incoming", result.changes, source)
       ELSE UNCHANGED <<networkLog, networkEventCounter>>
    /\ UNCHANGED <<rootId, selectedId, connectMode, connectSourceId, poses,
                   simulationPlaying, simulationTime, idCounter>>

\* applyPose(id)
applyPose(id) ==
    /\ last' = OtherOp
    /\ IF \E i \in 1..Len(poses) : poses[i].id = id
       THEN LET pose == poses[CHOOSE i \in 1..Len(poses) :
                                 /\ poses[i].id = id
                                 /\ \A k \in 1..(i - 1) : poses[k].id # id]
                result == applyValues("pose", pose.values, "ui")
            IN /\ nodes' = result.nodes
               /\ nodeOrder' = result.order
       ELSE UNCHANGED <<nodes, nodeOrder>>
    /\ UNCHANGED <<rootId, selectedId, connectMode, connectSourceId, poses, networkLog,
                   simulationPlaying, simulationTime, idCounter, networkEventCounter>>

\* setSimulationPlaying(playing)
setSimulationPlaying(playing) ==
    /\ last' = OtherOp
    /\ simulationPlaying' = playing
    /\ UNCHANGED <<nodes, nodeOrder, rootId, selectedId, connectMode, connectSourceId, poses,
                   networkLog, simulationTime, idCounter, networkEventCounter>>

\* Number((center + amplitude * Math.sin(phase + jointIndex)).toFixed(3)), for the sine
\* sampled at its extremes and its zero: w in {-1, 0, 1}
simulationSample(min, max, w) ==
    IF w = 1 THEN max
    ELSE IF w = -1 THEN min
    ELSE (max + min) \div 2

RECURSIVE simulateJoints(_, _, _, _, _)
\* the inner loop of advanceSimulation over one node's joints
\* acc: [joints, changes, nodeChanged, jointIndex]
\* wave[jointIndex + 1]: the sine the joint's own frequency and offset give;
\* swing: how far toFixed(3) rounds the sample past the limit it sits on
simulateJoints(joints, idx, acc, wave, swing) ==
    IF idx > Len(joints) THEN acc
    ELSE LET joint == joints[idx]
             min == joint.limits[1]
             max == joint.limits[2]
         IN
         IF joint.externalControl
         THEN simulateJoints(joints, idx + 1, acc, wave, swing)
         ELSE IF Lte(Sub(max, min), 0)
         THEN simulateJoints(joints, idx + 1, [acc EXCEPT !.jointIndex = @ + 1], wave, swing)
         ELSE LET w == wave[acc.jointIndex + 1]
                  rounded == IF IsNum(min) /\ IsNum(max)
                             THEN simulationSample(min, max, w) + swing * w
                             ELSE NaN
                  written == clamp(rounded, min, max)
              IN IF Gt(MathAbs(Sub(rounded, joint.currentValue)), 0)
                 THEN simulateJoints(joints, idx + 1,
                        [joints |-> [acc.joints EXCEPT ![idx].currentValue = written],
                         changes |-> Put(acc.changes, joint.name, written),
                         nodeChanged |-> TRUE,
                         jointIndex |-> acc.jointIndex + 1], wave, swing)
                 ELSE simulateJoints(joints, idx + 1, [acc EXCEPT !.jointIndex = @ + 1],
                                     wave, swing)

RECURSIVE simulateNodes(_, _, _, _, _)
\* the outer loop of advanceSimulation. acc: [nodes, order, changes, changed, jointIndex]
simulateNodes(ns, keys, acc, wave, swing) ==
    IF keys = <<>> THEN acc
    ELSE LET node == ns[Head(keys)]
             r == simulateJoints(node.joints, 1,
                                 [joints |-> node.joints, changes |-> acc.changes,
                                  nodeChanged |-> FALSE, jointIndex |-> acc.jointIndex],
                                 wave, swing)
         IN simulateNodes(ns, Tail(keys),
              IF r.nodeChanged
              THEN [nodes |-> Put(acc.nodes, node.id, [node EXCEPT !.joints = r.joints]),
                    order |-> PutOrder(acc.order, node.id),
                    changes |-> r.changes, changed |-> TRUE, jointIndex |-> r.jointIndex]
              ELSE [acc EXCEPT !.jointIndex = r.jointIndex],
              wave, swing)

\* advanceSimulation(delta): delta and the clock count quarter seconds
advanceSimulation(delta, wave, swing) ==
    LET r == simulateNodes(nodes, nodeOrder,
                           [nodes |-> nodes, order |-> nodeOrder, changes |-> <<>>,
                            changed |-> FALSE, jointIndex |-> 0], wave, swing)
        nextTime == simulationTime + delta
        logThresholdCrossed == (nextTime \div 2) # (simulationTime \div 2)
    IN
    /\ last' = OtherOp
    /\ IF ~simulationPlaying
       THEN UNCHANGED <<nodes, nodeOrder, simulationTime, networkLog, networkEventCounter>>
       ELSE /\ simulationTime' = nextTime
            /\ nodes' = r.nodes
            /\ nodeOrder' = r.order
            /\ IF r.changed /\ logThresholdCrossed /\ DOMAIN r.changes # {}
               THEN logNetworkEventUpdate("incoming", r.changes, "simulation")
               ELSE UNCHANGED <<networkLog, networkEventCounter>>
    /\ UNCHANGED <<rootId, selectedId, connectMode, connectSourceId, poses,
                   simulationPlaying, idCounter>>

\* ------------------------------------------------------------ importScene
\* a parsed JSON value where the code expects a number:
\*   [t |-> "num", v |-> n], [t |-> "str"] (a non-numeric string), [t |-> "null"]
Num(n) == [t |-> "num", v |-> n]

NonNumeric == [t |-> "str"]

JsonNull == [t |-> "null"]

\* Number(value)
ToNumber(raw) ==
    CASE raw.t = "num" -> raw.v
      [] raw.t = "null" -> 0
      [] OTHER -> NaN

\* value ?? fallback on a field that may be absent or null
FieldOr(entry, field, fallback) ==
    IF Has(entry, field) /\ entry[field] # JsonNull THEN entry[field] ELSE fallback

\* typeof entry.f === 'string' && entry.f.trim()
StringField(entry, field) == Has(entry, field) /\ Trim(entry[field]) # EmptyStr

\* one entry of rawJoints.map(...): [joint, used, counter]
importJoint(entry, defaultPivot, used, counter) ==
    LET type == IF Has(entry, "type") /\ entry.type = "linear" THEN "linear" ELSE "rotational"
        axis == IF Has(entry, "axis") /\ entry.axis \in {"x", "y", "z"} THEN entry.axis ELSE "z"
        limitsInput == IF Has(entry, "limits") /\ Len(entry.limits) >= 2 THEN entry.limits
                       ELSE IF type = "linear" THEN <<Num(0), Num(150)>>
                       ELSE <<Num(-90), Num(90)>>
        normalizedLimits == normalizeLimits(<<ToNumber(limitsInput[1]), ToNumber(limitsInput[2])>>)
        rawValue == ToNumber(FieldOr(entry, "currentValue",
                                     Num(IF type = "linear" THEN normalizedLimits[1] ELSE 0)))
        currentValue == clamp(rawValue, normalizedLimits[1], normalizedLimits[2])
        pivot == IF Has(entry, "pivot") /\ Len(entry.pivot) = 3
                 THEN <<ToNumber(entry.pivot[1]), ToNumber(entry.pivot[2]),
                        ToNumber(entry.pivot[3])>>
                 ELSE defaultPivot
        hasId == StringField(entry, "id")
        jointId == IF hasId THEN entry.id ELSE createId("joint", counter + 1)
        named == IF StringField(entry, "name") THEN Trim(entry.name) ELSE jointId
        name == IF ~Truthy(named) \/ named \in used THEN nextJointNameFromUsed(used) ELSE named
    IN [joint |-> [id |-> jointId, name |-> name, type |-> type, axis |-> axis,
                   limits |-> normalizedLimits, currentValue |-> currentValue,
                   externalControl |-> Has(entry, "externalControl") /\ entry.externalControl,
                   pivot |-> pivot],
        used |-> used \cup {name},
        counter |-> IF hasId THEN counter ELSE counter + 1]

RECURSIVE importJoints(_, _, _, _, _)
\* rawJoints.map(...), threading usedJointNames and the id counter. acc: joints so far
importJoints(rawJoints, defaultPivot, acc, used, counter) ==
    IF rawJoints = <<>> THEN [joints |-> acc, used |-> used, counter |-> counter]
    ELSE LET r == importJoint(Head(rawJoints), defaultPivot, used, counter)
         IN importJoints(Tail(rawJoints), defaultPivot, Append(acc, r.joint), r.used, r.counter)

\* the store's defaultBox()
defaultBox == [kind |-> "box", width |-> 300, height |-> 400, depth |-> 300]

RECURSIVE importNodes(_, _)
\* for (const [id, rawNode] of nodeEntries) { ... normalizedNodes[id] = {...} }
\* acc: [nodes, order, used, counter]
importNodes(entries, acc) ==
    IF entries = <<>> THEN acc
    ELSE LET id == Head(entries).key
             rawNode == Head(entries).node
         IN IF rawNode = JsonNull THEN importNodes(Tail(entries), acc)
            ELSE LET geometry == FieldOr(rawNode, "geometry", defaultBox)
                     rawJoints == IF Has(rawNode, "joints") THEN rawNode.joints
                                  ELSE IF Has(rawNode, "joint") THEN <<rawNode.joint>>
                                  ELSE <<>>
                     r == importJoints(rawJoints, getDefaultJointPivot(geometry), <<>>,
                                       acc.used, acc.counter)
                     node == [id |-> FieldOr(rawNode, "id", id),
                              geometry |-> geometry,
                              parentId |-> IF Has(rawNode, "parentId") THEN rawNode.parentId
                                           ELSE Undefined,
                              children |-> IF Has(rawNode, "children") THEN rawNode.children
                                           ELSE <<>>,
                              baseOffset |->
                                 IF Has(rawNode, "baseOffset") /\ Len(rawNode.baseOffset) = 3
                                 THEN <<ToNumber(rawNode.baseOffset[1]),
                                        ToNumber(rawNode.baseOffset[2]),
                                        ToNumber(rawNode.baseOffset[3])>>
                                 ELSE <<0, 0, 0>>,
                              joints |-> r.joints]
                 IN importNodes(Tail(entries),
                                [nodes |-> Put(acc.nodes, id, node),
                                 order |-> PutOrder(acc.order, id),
                                 used |-> r.used,
                                 counter |-> r.counter])

\* a pose name: the text base, the number after a space ("Pose 3": num = 3, 0 for
\* none), surrounding white space, and the " (k)" suffixes appended to it
PoseName(base, num) == [base |-> base, num |-> num, pad |-> FALSE, dup |-> <<>>]

EmptyPoseName == PoseName("", 0)

\* name.match(/^Pose (\d+)$/i)
MatchesPosePattern(name) ==
    name.base \in {"Pose", "pose"} /\ name.num > 0 /\ ~name.pad /\ name.dup = <<>>

\* the set used of getNextPoseName
usedPoseNames(ps) ==
    {ps[i].name : i \in 1..Len(ps)} \cup
    {PoseName("Pose", ps[i].name.num) : i \in {x \in 1..Len(ps) : MatchesPosePattern(ps[x].name)}}

RECURSIVE nextPoseIndex(_, _)
nextPoseIndex(used, index) ==
    IF PoseName("Pose", index) \in used THEN nextPoseIndex(used, index + 1) ELSE index

\* getNextPoseName(poses)
getNextPoseName(ps) == PoseName("Pose", nextPoseIndex(usedPoseNames(ps), 1))

RECURSIVE dedupePoseName(_, _, _)
\* `${baseName} (${suffix})` for the first suffix >= 2 that is free
dedupePoseName(usedNames, baseName, suffix) ==
    LET candidate == [baseName EXCEPT !.dup = Append(@, suffix)] IN
    IF candidate \in usedNames THEN dedupePoseName(usedNames, baseName, suffix + 1)
    ELSE candidate

\* one entry of scene.poses: [pose, counter]
importPose(entry, normalizedPoses, usedNames, validJointNames, counter) ==
    LET hasId == StringField(entry, "id")
        poseId == IF hasId THEN entry.id ELSE createId("pose", counter + 1)
        given == IF Has(entry, "name") /\ [entry.name EXCEPT !.pad = FALSE] # EmptyPoseName
                 THEN [entry.name EXCEPT !.pad = FALSE]
                 ELSE getNextPoseName(normalizedPoses)
        poseName == IF given \in usedNames THEN dedupePoseName(usedNames, given, 2) ELSE given
        rawValues == IF Has(entry, "values") THEN entry.values ELSE <<>>
        keep == {k \in DOMAIN rawValues : k \in validJointNames /\ IsNum(ToNumber(rawValues[k]))}
    IN [pose |-> [id |-> poseId, name |-> poseName,
                  values |-> [k \in keep |-> ToNumber(rawValues[k])]],
        counter |-> IF hasId THEN counter ELSE counter + 1]

RECURSIVE importPoses(_, _, _, _, _)
importPoses(entries, normalizedPoses, usedNames, validJointNames, counter) ==
    IF entries = <<>> THEN [poses |-> normalizedPoses, counter |-> counter]
    ELSE IF Head(entries) = JsonNull
    THEN importPoses(Tail(entries), normalizedPoses, usedNames, validJointNames, counter)
    ELSE LET r == importPose(Head(entries), normalizedPoses, usedNames, validJointNames, counter)
         IN importPoses(Tail(entries), Append(normalizedPoses, r.pose),
                        usedNames \cup {r.pose.name}, validJointNames, r.counter)

\* the largest numeric suffix among the ids and names of a scene
sceneMaxSuffix(ns, ps) ==
    LET suffixes ==
            {extractNumericSuffix(ns[k].id) : k \in DOMAIN ns}
            \cup {extractNumericSuffix(e.joint.name) : e \in AllJoints(ns)}
            \cup {extractNumericSuffix(e.joint.id) : e \in AllJoints(ns)}
            \cup {extractNumericSuffix(ps[i].id) : i \in 1..Len(ps)}
            \cup {0}
    IN CHOOSE m \in suffixes : \A x \in suffixes : x <= m

\* syncCountersFromScene(scene): the counter afterwards
syncCountersFromScene(counter, ns, ps) == Max2(counter, sceneMaxSuffix(ns, ps))

\* importScene(scene)
importScene(scene) ==
    LET n == importNodes(scene.nodes,
                         [nodes |-> <<>>, order |-> <<>>, used |-> {}, counter |-> idCounter])
        p == importPoses(IF Has(scene, "poses") THEN scene.poses ELSE <<>>, <<>>, {},
                         gatherJointNames(n.nodes, Undefined), n.counter)
        desiredRootId ==
            IF Has(scene, "rootId") /\ Truthy(scene.rootId) /\ Has(n.nodes, scene.rootId)
            THEN scene.rootId
            ELSE IF n.order # <<>> THEN Head(n.order) ELSE rootId
    IN
    /\ last' = OtherOp
    /\ nodes' = n.nodes
    /\ nodeOrder' = n.order
    /\ poses' = p.poses
    /\ idCounter' = syncCountersFromScene(p.counter, n.nodes, p.poses)
    /\ rootId' = desiredRootId
    /\ selectedId' = desiredRootId
    /\ connectMode' = FALSE
    /\ connectSourceId' = Undefined
    /\ UNCHANGED <<networkLog, simulationPlaying, simulationTime, networkEventCounter>>

\* =========================================================== kinematics
\* Positions count half millimetres (2000 to the metre); angles count whole degrees, so
\* DEG_TO_RAD and radToDeg have no counterpart; rotation matrices and unit vectors are
\* fixed-point numbers with One standing for 1.

\* 10000 * sin(d degrees) for d = 0..90
SinTable ==
    <<0, 175, 349, 523, 698, 872, 1045, 1219, 1392, 1564, 1736, 1908, 2079,
      2250, 2419, 2588, 2756, 2924, 3090, 3256, 3420, 3584, 3746, 3907, 4067, 4226,
      4384, 4540, 4695, 4848, 5000, 5150, 5299, 5446, 5592, 5736, 5878, 6018, 6157,
      6293, 6428, 6561, 6691, 6820, 6947, 7071, 7193, 7314, 7431, 7547, 7660, 7771,
      7880, 7986, 8090, 8192, 8290, 8387, 8480, 8572, 8660, 8746, 8829, 8910, 8988,
      9063, 9135, 9205, 9272, 9336, 9397, 9455, 9511, 9563, 9613, 9659, 9703, 9744,
      9781, 9816, 9848, 9877, 9903, 9925, 9945, 9962, 9976, 9986, 9994, 9998, 10000>>

\* Math.sin of an angle in degrees
Sin(deg) ==
    LET d == deg % 360 IN
    IF d <= 90 THEN SinTable[d + 1]
    ELSE IF d <= 180 THEN SinTable[180 - d + 1]
    ELSE IF d <= 270 THEN -SinTable[d - 180 + 1]
    ELSE -SinTable[360 - d + 1]

\* Math.cos of an angle in degrees
Cos(deg) == Sin(deg + 90)

\* the fixed-point 1
One == Sin(90)

\* position units per millimetre of a linear joint's value
MM_TO_M == 2

\* n / d rounded to the nearest integer
RoundDiv(n, d) == IF n >= 0 THEN (2 * n + d) \div (2 * d) ELSE -((2 * (-n) + d) \div (2 * d))

\* position units back to millimetres
M_TO_MM(v) == RoundDiv(v, MM_TO_M)

\* the one element of a one-element set; { e(v) : v \in {x} } computes x once for all
\* the places where e uses it
TheOne(S) == CHOOSE r \in S : TRUE

RECURSIVE IsqrtFrom(_, _)
IsqrtFrom(n, x) ==
    TheOne({IF y >= x THEN x ELSE IsqrtFrom(n, y) : y \in {(x + n \div x) \div 2}})

\* Math.sqrt, rounded down
Isqrt(n) == IF n <= 0 THEN 0 ELSE IsqrtFrom(n, n)

\* THREE.Vector3
VAdd(a, b) == <<a[1] + b[1], a[2] + b[2], a[3] + b[3]>>

VSub(a, b) == <<a[1] - b[1], a[2] - b[2], a[3] - b[3]>>

VDot(a, b) == a[1] * b[1] + a[2] * b[2] + a[3] * b[3]

VCross(a, b) ==
    <<a[2] * b[3] - a[3] * b[2], a[3] * b[1] - a[1] * b[3], a[1] * b[2] - a[2] * b[1]>>

\* v * k / d
VScale(v, k, d) == <<RoundDiv(v[1] * k, d), RoundDiv(v[2] * k, d), RoundDiv(v[3] * k, d)>>

\* Vector3.normalize(): a unit vector in fixed point (the zero vector stays zero)
VNormalize(v) ==
    TheOne({IF squared = 0 THEN <<0, 0, 0>>
            ELSE IF squared < 20000000
                 THEN TheOne({VScale(v, 10 * One, length) : length \in {Isqrt(100 * squared)}})
            ELSE TheOne({VScale(v, One, length) : length \in {Isqrt(squared)}}) :
            squared \in {VDot(v, v)}})

\* squared Vector3.distanceTo
Distance2(a, b) == VDot(VSub(a, b), VSub(a, b))

\* THREE.Matrix3 in fixed point, as rows
Identity3 == <<<<One, 0, 0>>, <<0, One, 0>>, <<0, 0, One>>>>

MatVec(m, v) ==
    TheOne({<<RoundDiv(VDot(x[1], y), One), RoundDiv(VDot(x[2], y), One),
              RoundDiv(VDot(x[3], y), One)>> : x \in {m}, y \in {v}})

MatCol(m, j) == <<m[1][j], m[2][j], m[3][j]>>

\* row i of a times b
MatRow(a, b, i) ==
    <<RoundDiv(VDot(a[i], MatCol(b, 1)), One), RoundDiv(VDot(a[i], MatCol(b, 2)), One),
      RoundDiv(VDot(a[i], MatCol(b, 3)), One)>>

MatMul(a, b) ==
    TheOne({<<MatRow(x, y, 1), MatRow(x, y, 2), MatRow(x, y, 3)>> : x \in {a}, y \in {b}})

\* makeRotationX / makeRotationY / makeRotationZ
makeRotation(axis, deg) ==
    LET c == Cos(deg)
        s == Sin(deg)
    IN CASE axis = "x" -> <<<<One, 0, 0>>, <<0, c, -s>>, <<0, s, c>>>>
         [] axis = "y" -> <<<<c, 0, s>>, <<0, One, 0>>, <<-s, 0, c>>>>
         [] OTHER -> <<<<c, -s, 0>>, <<s, c, 0>>, <<0, 0, One>>>>

\* makeRotationFromEuler(euler) with order 'XYZ'
makeRotationFromEuler(rotation) ==
    MatMul(MatMul(makeRotation("x", rotation[1]), makeRotation("y", rotation[2])),
           makeRotation("z", rotation[3]))

\* THREE.Matrix4 restricted to rigid motions: [r: rotation, t: translation]
IdentityMatrix == [r |-> Identity3, t |-> <<0, 0, 0>>]

\* matrix.multiply(new Matrix4().makeTranslation(v))
multiplyTranslation(matrix, v) == [matrix EXCEPT !.t = VAdd(matrix.t, MatVec(matrix.r, v))]

\* matrix.multiply(rotation)
multiplyRotation(matrix, rot) == [matrix EXCEPT !.r = MatMul(matrix.r, rot)]

\* Vector3.applyMatrix4(matrix)
applyMatrix4(v, matrix) == VAdd(matrix.t, MatVec(matrix.r, v))

\* axisToVector(axis)
axisToVector(axis) ==
    CASE axis = "x" -> <<1, 0, 0>>
      [] axis = "y" -> <<0, 1, 0>>
      [] OTHER -> <<0, 0, 1>>

\* the scale factor 1
UnitScale == 1000

\* the scale factor 1 whatever the geometry's own
finiteScaleIgnored(geometry) == UnitScale

\* Number.isFinite(geometry.scale) ? geometry.scale : 1
finiteScale(geometry) ==
    IF Has(geometry, "scale") /\ IsNum(geometry.scale) THEN geometry.scale ELSE UnitScale

\* the default branch of getGeometryBounds
fallbackBounds == [width |-> 600, depth |-> 600, height |-> 600, radial |-> 300]

\* getGeometryBounds(geometry) of the simulator's scene module; a custom mesh's stored
\* bounds times its scale
getGeometryBounds(geometry) ==
    TheOne({
        CASE kind = "box" ->
                [width |-> geometry.width, depth |-> geometry.depth,
                 height |-> geometry.height,
                 radial |-> MathMax(geometry.width, geometry.depth) \div 2]
          [] kind = "cylinder" ->
                [width |-> geometry.radius * 2, depth |-> geometry.radius * 2,
                 height |-> geometry.height, radial |-> geometry.radius]
          [] kind = "sphere" ->
                [width |-> geometry.radius * 2, depth |-> geometry.radius * 2,
                 height |-> geometry.radius * 2, radial |-> geometry.radius]
          [] kind = "cone" ->
                [width |-> geometry.radius * 2, depth |-> geometry.radius * 2,
                 height |-> geometry.height, radial |-> geometry.radius]
          [] kind = "capsule" ->
                [width |-> geometry.radius * 2, depth |-> geometry.radius * 2,
                 height |-> geometry.length + geometry.radius * 2,
                 radial |-> geometry.radius]
          [] kind = "custom" ->
                TheOne({[width |-> RoundDiv(geometry.bounds.width * scale, UnitScale),
                         depth |-> RoundDiv(geometry.bounds.depth * scale, UnitScale),
                         height |-> RoundDiv(geometry.bounds.height * scale, UnitScale),
                         radial |-> RoundDiv(geometry.bounds.radial * scale, UnitScale)] :
                        scale \in {finiteScale(geometry)}})
          [] OTHER -> fallbackBounds :
        kind \in {IF Has(geometry, "kind") THEN geometry.kind ELSE "undefined"}})

\* every node lifted by half its height, root or not
computeBaseTranslationLifted(node, isRoot) ==
    <<node.baseOffset[1], node.baseOffset[2],
      node.baseOffset[3] + getGeometryBounds(node.geometry).height \div 2>>

\* computeBaseTranslation(node, isRoot)
computeBaseTranslation(node, isRoot) ==
    IF isRoot
    THEN <<node.baseOffset[1], node.baseOffset[2],
           node.baseOffset[3] + getGeometryBounds(node.geometry).height \div 2>>
    ELSE node.baseOffset

\* the joint's motion applied at the node's origin instead of at the joint's pivot
applyJointTransformAtOrigin(matrix, joint) ==
    IF joint.type = "rotational"
    THEN multiplyRotation(matrix, makeRotation(joint.axis, joint.currentValue))
    ELSE multiplyTranslation(matrix,
           VScale(axisToVector(joint.axis), joint.currentValue * MM_TO_M, 1))

\* applyJointTransform(matrix, joint)
applyJointTransform(matrix, joint) ==
    LET moved(atPivot) ==
            IF joint.type = "rotational"
            THEN multiplyRotation(atPivot, makeRotation(joint.axis, joint.currentValue))
            ELSE multiplyTranslation(atPivot,
                   VScale(axisToVector(joint.axis), joint.currentValue * MM_TO_M, 1))
    IN TheOne({multiplyTranslation(turned, VScale(joint.pivot, -1, 1)) :
                  turned \in {TheOne({moved(atPivot) :
                                atPivot \in {multiplyTranslation(matrix, joint.pivot)}})}})

RECURSIVE jointStatesAfterMove(_, _, _, _, _)
\* the joint states with pivot and axis read after the joint's own transform
jointStatesAfterMove(nodeId, joints, index, matrix, acc) ==
    IF index > Len(joints) THEN [matrix |-> matrix, joints |-> acc]
    ELSE LET joint == joints[index]
         IN TheOne({jointStatesAfterMove(nodeId, joints, index + 1, moved,
                       Append(acc, [nodeId |-> nodeId, jointIndex |-> index,
                                    pivot |-> applyMatrix4(joint.pivot, moved),
                                    axis |-> VNormalize(MatVec(moved.r,
                                                VScale(axisToVector(joint.axis), One, 1)))])) :
                       moved \in {applyJointTransform(matrix, joint)}})

RECURSIVE jointStatesFrom(_, _, _, _, _)
\* node.joints.forEach(...) of computeKinematics: [matrix, joints]
jointStatesFrom(nodeId, joints, index, matrix, acc) ==
    IF index > Len(joints) THEN [matrix |-> matrix, joints |-> acc]
    ELSE LET joint == joints[index]
             axisVector == VNormalize(MatVec(matrix.r, VScale(axisToVector(joint.axis), One, 1)))
             pivot == applyMatrix4(joint.pivot, matrix)
         IN TheOne({jointStatesFrom(nodeId, joints, index + 1, moved, states) :
                       moved \in {applyJointTransform(matrix, joint)},
                       states \in {Append(acc, [nodeId |-> nodeId, jointIndex |-> index,
                                                pivot |-> pivot, axis |-> axisVector])}})

RECURSIVE traverse(_, _, _, _, _, _)
\* traverse(nodeId, parentMatrix) of computeKinematics, over a list of sibling ids;
\* result: node id -> NodeWorldState
traverse(ns, root, ids, parentMatrix, result, fuel) ==
    IF ids = <<>> \/ fuel = 0 THEN result
    ELSE LET nodeId == Head(ids) IN
         IF ~Has(ns, nodeId) THEN traverse(ns, root, Tail(ids), parentMatrix, result, fuel)
         ELSE LET node == ns[nodeId]
                  based == multiplyTranslation(parentMatrix,
                                               computeBaseTranslation(node, nodeId = root))
                  staticRotation == IF Has(node, "staticRotation") THEN node.staticRotation
                                    ELSE <<0, 0, 0>>
                  rotated == IF \E i \in 1..3 : staticRotation[i] # 0
                             THEN multiplyRotation(based, makeRotationFromEuler(staticRotation))
                             ELSE based
                  below(js) ==
                      TheOne({traverse(ns, root, node.children, js.matrix, own, fuel - 1) :
                                 own \in {Put(result, nodeId,
                                              [id |-> nodeId, worldMatrix |-> js.matrix,
                                               position |-> applyMatrix4(<<0, 0, 0>>, js.matrix),
                                               joints |-> js.joints])}})
              IN TheOne({traverse(ns, root, Tail(ids), parentMatrix, done, fuel) :
                            done \in {TheOne({below(js) :
                                js \in {TheOne({jointStatesFrom(nodeId, node.joints, 1, matrix, <<>>) :
                                            matrix \in {rotated}})}})}})

RECURSIVE traverseDeeperThan(_, _, _)
\* traverse, called on each of ids, nests more than depth calls below it
traverseDeeperThan(ns, ids, depth) ==
    \E i \in 1..Len(ids) :
        /\ Has(ns, ids[i])
        /\ IF depth = 0 THEN TRUE
           ELSE traverseDeeperThan(ns, ns[ids[i]].children, depth - 1)

RECURSIVE traverseMeetsInherited(_, _, _)
\* traverse, called on each of ids, comes to an id that is truthy in nodes and no node:
\* computeBaseTranslation reads node.baseOffset[0] of it (lines 34-38) and the call
\* ends in a TypeError
traverseMeetsInherited(ns, ids, fuel) ==
    IF ids = <<>> \/ fuel = 0 THEN FALSE
    ELSE IF Inherited(ns, Head(ids)) THEN TRUE
    ELSE IF Has(ns, Head(ids)) /\ traverseMeetsInherited(ns, ns[Head(ids)].children, fuel - 1)
         THEN TRUE
    ELSE traverseMeetsInherited(ns, Tail(ids), fuel)

\* computeKinematics(scene) ends in a TypeError
kinematicsThrows(scene) ==
    traverseMeetsInherited(scene.nodes, <<scene.rootId>>, Cardinality(DOMAIN scene.nodes) + 1)

\* the recursion of traverse never ends: it nests deeper than the scene has nodes, so
\* a node is its own descendant, and the call ends in the engine's RangeError
kinematicsOverflows(scene) ==
    traverseDeeperThan(scene.nodes, <<scene.rootId>>, Cardinality(DOMAIN scene.nodes))

\* a walk that gives up, with nothing to report, on a scene that lists a child without
\* a node
computeKinematicsStrict(scene) ==
    IF \E k \in DOMAIN scene.nodes :
          \E i \in 1..Len(scene.nodes[k].children) : ~Has(scene.nodes, scene.nodes[k].children[i])
    THEN <<>>
    ELSE traverse(scene.nodes, scene.rootId, <<scene.rootId>>, IdentityMatrix, <<>>,
                  Cardinality(DOMAIN scene.nodes) + 1)

\* computeKinematics(scene), on a scene whose joints are values
computeKinematics(scene) ==
    TheOne({traverse(ns, scene.rootId, <<scene.rootId>>, IdentityMatrix, <<>>,
                     Cardinality(DOMAIN ns) + 1) : ns \in {scene.nodes}})

\* ------------------------------------------------------- inverse kinematics
\* A scene passed to the solver: [rootId, order, nodes], where order lists the keys of
\* nodes as Object.values meets them and a node's joints are addresses of joint objects
\* in the heap, so that two scenes can share a joint object or hold copies of it.

\* the scene with every joint address replaced by the joint object it points to
Deref(scene, heap) ==
    [scene EXCEPT !.nodes =
        [k \in DOMAIN scene.nodes |->
            [scene.nodes[k] EXCEPT !.joints =
                [i \in 1..Len(scene.nodes[k].joints) |-> heap[scene.nodes[k].joints[i]]]]]]

RECURSIVE gatherPathFrom(_, _, _, _)
gatherPathFrom(scene, current, path, fuel) ==
    IF ~Truthy(current) \/ fuel = 0 THEN path
    ELSE gatherPathFrom(scene,
                        IF Has(scene.nodes, current) THEN scene.nodes[current].parentId
                        ELSE Undefined,
                        <<current>> \o path, fuel - 1)

\* gatherPath(scene, targetId): the ids from the root down to targetId
gatherPathEveryNode(scene, targetId) == scene.order
gatherPath(scene, targetId) ==
    gatherPathFrom(scene, targetId, <<>>, Cardinality(DOMAIN scene.nodes) + 1)

RECURSIVE collectJointValuesFrom(_, _, _, _)
collectJointValuesFrom(scene, heap, keys, values) ==
    IF keys = <<>> THEN values
    ELSE LET joints == scene.nodes[Head(keys)].joints
             named == {i \in 1..Len(joints) : Truthy(heap[joints[i]].name)}
             names == {heap[joints[i]].name : i \in named}
             lastOf(n) == CHOOSE i \in named :
                             /\ heap[joints[i]].name = n
                             /\ \A k \in named : heap[joints[k]].name = n => k <= i
         IN collectJointValuesFrom(scene, heap, Tail(keys),
               [n \in (DOMAIN values) \cup names |->
                   IF n \in names THEN heap[joints[lastOf(n)]].currentValue ELSE values[n]])

\* collectJointValues(scene): joint name -> currentValue
collectJointValuesNone(scene, heap) == <<>>
collectJointValues(scene, heap) == collectJointValuesFrom(scene, heap, scene.order, <<>>)

\* clamp(value, min, max) of the kinematics module
kinematicsClamp(value, min, max) == MathMin(MathMax(value, min), max)

\* projectOntoPlane(vector, normal), normal a fixed-point unit vector
projectOntoPlane(vector, normal) ==
    VSub(vector, VScale(normal, RoundDiv(VDot(vector, normal), One), One))

\* cloneJoint(joint)
cloneJoint(joint) ==
    [id |-> joint.id, type |-> joint.type, axis |-> joint.axis,
     limits |-> <<joint.limits[1], joint.limits[2]>>, currentValue |-> joint.currentValue,
     name |-> joint.name, externalControl |-> joint.externalControl,
     pivot |-> <<joint.pivot[1], joint.pivot[2], joint.pivot[3]>>]

RECURSIVE cloneSceneAlongPathFrom(_, _, _, _)
\* acc: [scene, heap]
cloneSceneAlongPathFrom(scene, path, index, acc) ==
    IF index > Len(path) THEN acc
    ELSE LET id == path[index] IN
         IF ~Has(scene.nodes, id) THEN cloneSceneAlongPathFrom(scene, path, index + 1, acc)
         ELSE LET node == scene.nodes[id]
                  base == Len(acc.heap)
                  copies == [i \in 1..Len(node.joints) |-> cloneJoint(acc.heap[node.joints[i]])]
                  cloned == [node EXCEPT !.joints = [i \in 1..Len(node.joints) |-> base + i]]
              IN cloneSceneAlongPathFrom(scene, path, index + 1,
                    [scene |-> [acc.scene EXCEPT !.nodes[id] = cloned],
                     heap |-> acc.heap \o copies])

\* cloneSceneAlongPath(scene, path): [scene, heap], the heap grown by the copies
cloneSceneShared(scene, heap, path) == [scene |-> scene, heap |-> heap]
cloneSceneAlongPath(scene, heap, path) ==
    cloneSceneAlongPathFrom(scene, path, 1, [scene |-> scene, heap |-> heap])

RECURSIVE jointChainFrom(_, _, _, _)
jointChainFrom(scene, path, index, chain) ==
    IF index > Len(path) THEN chain
    ELSE LET nodeId == path[index] IN
         jointChainFrom(scene, path, index + 1,
            IF ~Has(scene.nodes, nodeId) THEN chain
            ELSE chain \o [i \in 1..Len(scene.nodes[nodeId].joints) |->
                              [nodeId |-> nodeId, index |-> i]])

\* path.flatMap(...): the joints of the path's nodes, root first
jointChainTwice(scene, path) ==
    jointChainFrom(scene, path, 1, <<>>) \o jointChainFrom(scene, path, 1, <<>>)
jointChainOf(scene, path) == jointChainFrom(scene, path, 1, <<>>)

\* vector.length() < 1e-5: a length below the resolution of positions
lengthNeverBelow(vector) == FALSE
lengthBelowEps(vector) == VDot(vector, vector) = 0

\* the weight of whole angle d for a dot product x and a cross product y >= 0, both
\* scaled to at most 50000
angleWeight(x, y, d) == x * Cos(d) + y * Sin(d)

\* Math.acos(clamp(a.dot(b), -1, 1)) of the normalised a and b, in whole degrees:
\* the d in 0..180 with cos d nearest dot / (|a||b|) and sin d nearest |cross| / (|a||b|)
acosDegrees(dot, crossLength) ==
    LET k == (Max2(MathAbs(dot), crossLength) \div 50000) + 1
    IN TheOne({IF x = 0 /\ y = 0 THEN 90
               ELSE CHOOSE d \in 0..180 :
                       /\ d > 0 => angleWeight(x, y, d) > angleWeight(x, y, d - 1)
                       /\ d < 180 => angleWeight(x, y, d) >= angleWeight(x, y, d + 1) :
               x \in {dot \div k}, y \in {crossLength \div k}})

\* the signed angle, in degrees, lines 237-243 compute for a rotational joint
signedAngle(currentProjection, targetProjection, axis) ==
    TheOne({(IF along < 0 THEN -1 ELSE 1) * acosDegrees(dot, MathAbs(along) \div 100) :
            dot \in {VDot(currentProjection, targetProjection)},
            along \in {VDot(VCross(currentProjection, targetProjection), VScale(axis, 1, 100))}})

\* lines 228-256: the value a rotational joint gets, its own value when it is skipped
nextRotationalValue(joint, currentProjection, targetProjection, axis) ==
    IF lengthBelowEps(currentProjection) \/ lengthBelowEps(targetProjection)
    THEN joint.currentValue
    ELSE TheOne({IF angle = 0 THEN joint.currentValue
                 ELSE kinematicsClamp(joint.currentValue + angle,
                                      joint.limits[1], joint.limits[2]) :
                 angle \in {signedAngle(currentProjection, targetProjection, axis)}})

\* lines 257-267: the value a linear joint gets, its own value when it is skipped
nextLinearValue(joint, currentDistance, targetDistance) ==
    TheOne({IF M_TO_MM(delta) = 0 THEN joint.currentValue
            ELSE kinematicsClamp(joint.currentValue + M_TO_MM(delta),
                                 joint.limits[1], joint.limits[2]) :
            delta \in {RoundDiv(targetDistance - currentDistance, One)}})

\* the value lines 228-267 assign to the joint, or the joint's own value when the
\* iteration is skipped
nextJointValue(joint, jointState, effector, target) ==
    TheOne({IF joint.type = "rotational"
            THEN TheOne({nextRotationalValue(joint, currentProjection, targetProjection, axis) :
                         currentProjection \in {projectOntoPlane(toEffector, axis)},
                         targetProjection \in {projectOntoPlane(toTarget, axis)}})
            ELSE nextLinearValue(joint, VDot(toEffector, axis), VDot(toTarget, axis)) :
            toEffector \in {VSub(effector, jointState.pivot)},
            toTarget \in {VSub(target, jointState.pivot)},
            axis \in {VNormalize(jointState.axis)}})

\* effector && effector.distanceTo(target) <= tolerance
withinTwiceTolerance(world, targetNodeId, target, tolerance) ==
    Has(world, targetNodeId)
    /\ Distance2(world[targetNodeId].position, target) <= 4 * tolerance * tolerance
withinTolerance(world, targetNodeId, target, tolerance) ==
    Has(world, targetNodeId)
    /\ Distance2(world[targetNodeId].position, target) <= tolerance * tolerance

\* options.maxIterations ?? 12
DefaultMaxIterations == 12

\* options.tolerance ?? 0.005, in position units
DefaultTolerance == 10

\* solveIkForNode from line 188 up to its loop, the path known: the two early returns,
\* the working copy and the options. heap holds the caller's joint objects.
solveIkFromPath(scene, heap, targetNodeId, target, options, path) ==
    LET jointChain == jointChainOf(scene, path)
        \* line 195: node.joints.map of a truthy node without joints
        threw == \E i \in 1..Len(path) : Inherited(scene.nodes, path[i])
        early == Len(path) = 0 \/ Len(jointChain) = 0
        working == IF early \/ threw THEN [scene |-> scene, heap |-> heap]
                   ELSE cloneSceneAlongPath(scene, heap, path)
        maxIterations == IF Has(options, "maxIterations") THEN options.maxIterations
                         ELSE DefaultMaxIterations
        tolerance == IF Has(options, "tolerance") THEN options.tolerance
                     ELSE DefaultTolerance
    IN [pc |-> IF threw THEN "typeError"
               ELSE IF early THEN "done" ELSE IF 0 < maxIterations THEN "joint" ELSE "return",
        scene |-> scene,
        input |-> heap,
        targetNodeId |-> targetNodeId,
        target |-> target,
        maxIterations |-> maxIterations,
        tolerance |-> tolerance,
        path |-> path,
        jointChain |-> jointChain,
        workingScene |-> working.scene,
        heap |-> working.heap,
        iteration |-> 0,
        jointIndex |-> Len(jointChain),
        updated |-> FALSE,
        success |-> FALSE,
        fkCalls |-> 0,
        checked |-> <<>>,
        result |-> IF early /\ ~threw
                   THEN [scene |-> scene,
                         jointValues |-> collectJointValues(scene, heap),
                         success |-> FALSE]
                   ELSE <<>>]

\* solveIkForNode(scene, targetNodeId, target, options) up to its loop
solveIkForNode(scene, heap, targetNodeId, target, options) ==
    /\ ik.pc = "idle"
    /\ ik' = solveIkFromPath(scene, heap, targetNodeId, target, options,
                             gatherPath(scene, targetNodeId))
    /\ UNCHANGED storeVars

\* one pass of the inner loop, lines 209-268: the joint at jointIndex
solveIkJoint ==
    /\ ik.pc = "joint"
    /\ ~kinematicsOverflows(ik.workingScene)
    /\ \E worldState \in {computeKinematics(Deref(ik.workingScene, ik.heap))} :
       LET ref == ik.jointChain[ik.jointIndex]
           present == /\ Has(ik.workingScene.nodes, ref.nodeId)
                      /\ ref.index <= Len(ik.workingScene.nodes[ref.nodeId].joints)
           address == ik.workingScene.nodes[ref.nodeId].joints[ref.index]
           joint == ik.heap[address]
           known == /\ Has(worldState, ref.nodeId)
                    /\ ref.index <= Len(worldState[ref.nodeId].joints)
                    /\ Has(worldState, ik.targetNodeId)
       IN \E nextValue \in {IF present /\ known
                             THEN nextJointValue(joint, worldState[ref.nodeId].joints[ref.index],
                                                 worldState[ik.targetNodeId].position, ik.target)
                             ELSE joint.currentValue} :
          LET written == present /\ known /\ nextValue # joint.currentValue
          IN ik' = [ik EXCEPT
                      !.heap = IF written THEN [@ EXCEPT ![address].currentValue = nextValue]
                               ELSE @,
                      !.updated = @ \/ written,
                      !.fkCalls = IF present THEN @ + 1 ELSE @,
                      !.jointIndex = @ - 1,
                      !.pc = IF ik.jointIndex = 1 THEN "check" ELSE "joint"]
    /\ UNCHANGED storeVars

\* the end of a sweep with the no-progress exit ahead of the tolerance check
solveIkCheckUpdatedFirst ==
    /\ ik.pc = "check"
    /\ ~kinematicsOverflows(ik.workingScene)
    /\ \E finalState \in {computeKinematics(Deref(ik.workingScene, ik.heap))} :
       \E within \in {/\ ik.updated
                       /\ withinTolerance(finalState, ik.targetNodeId, ik.target,
                                          ik.tolerance)} :
       LET again == ~within /\ ik.updated /\ ik.iteration + 1 < ik.maxIterations
       IN ik' = [ik EXCEPT
                   !.fkCalls = @ + 1,
                   !.success = within,
                   !.checked = ik.heap,
                   !.iteration = IF within \/ ~ik.updated THEN @ ELSE @ + 1,
                   !.updated = IF again THEN FALSE ELSE @,
                   !.jointIndex = IF again THEN Len(ik.jointChain) ELSE @,
                   !.pc = IF again THEN "joint" ELSE "return"]
    /\ UNCHANGED storeVars

\* the end of a sweep that goes on to the next sweep whether or not a joint changed
solveIkCheckUpdatedIgnored ==
    /\ ik.pc = "check"
    /\ ~kinematicsOverflows(ik.workingScene)
    /\ \E finalState \in {computeKinematics(Deref(ik.workingScene, ik.heap))} :
       \E within \in {withinTolerance(finalState, ik.targetNodeId, ik.target, ik.tolerance)} :
       LET again == ~within /\ ik.iteration + 1 < ik.maxIterations
       IN ik' = [ik EXCEPT
                   !.fkCalls = @ + 1,
                   !.success = within,
                   !.checked = ik.heap,
                   !.iteration = IF within THEN @ ELSE @ + 1,
                   !.updated = IF again THEN FALSE ELSE @,
                   !.jointIndex = IF again THEN Len(ik.jointChain) ELSE @,
                   !.pc = IF again THEN "joint" ELSE "return"]
    /\ UNCHANGED storeVars

\* the end of a sweep, lines 270-279: the distance check, then break or the next sweep.
\* checked keeps the joint objects as this check saw them.
solveIkCheck ==
    /\ ik.pc = "check"
    /\ ~kinematicsOverflows(ik.workingScene)
    /\ \E finalState \in {computeKinematics(Deref(ik.workingScene, ik.heap))} :
       \E within \in {withinTolerance(finalState, ik.targetNodeId, ik.target, ik.tolerance)} :
       LET again == ~within /\ ik.updated /\ ik.iteration + 1 < ik.maxIterations
       IN ik' = [ik EXCEPT
                   !.fkCalls = @ + 1,
                   !.success = within,
                   !.checked = ik.heap,
                   !.iteration = IF within \/ ~ik.updated THEN @ ELSE @ + 1,
                   !.updated = IF again THEN FALSE ELSE @,
                   !.jointIndex = IF again THEN Len(ik.jointChain) ELSE @,
                   !.pc = IF again THEN "joint" ELSE "return"]
    /\ UNCHANGED storeVars

\* a computeKinematics call of the loop (line 216 or 270) never returns: the RangeError
\* leaves solveIkForNode, which catches nothing
solveIkOverflow ==
    /\ ik.pc \in {"joint", "check"}
    /\ kinematicsOverflows(ik.workingScene)
    /\ ik' = [ik EXCEPT !.pc = "rangeError"]
    /\ UNCHANGED storeVars

\* the return of lines 281-285
solveIkReturn ==
    /\ ik.pc = "return"
    /\ ik' = [ik EXCEPT
                !.result = [scene |-> ik.workingScene,
                            jointValues |-> collectJointValues(ik.workingScene, ik.heap),
                            success |-> ik.success],
                !.pc = "done"]
    /\ UNCHANGED storeVars

\* ------------------------------------------------------ specifications
\* no solveIkForNode call in progress
IkIdle == [pc |-> "idle"]

Init == InitStore /\ ik = IkIdle

\* an id no node carries
GhostId == Str("ghost", 0)

\* the ids a caller passes: every key in use, and one that names nothing
IdInputs == (DOMAIN nodes) \cup {GhostId}

\* the scene graph under link, selection and connect-mode operations
NextTree ==
    \/ \E kind \in {"box", "sphere"} :
          idCounter + 2 <= MaxTreeIds /\ addLink(kind) /\ UNCHANGED ik
    \/ \E id \in IdInputs : removeLink(id) /\ UNCHANGED ik
    \/ startConnection /\ UNCHANGED ik
    \/ \E id \in IdInputs \cup {Undefined} : selectNode(id) /\ UNCHANGED ik
    \/ \E id \in IdInputs : completeConnection(id) /\ UNCHANGED ik
    \/ cancelConnection /\ UNCHANGED ik

SpecTree == Init /\ [][NextTree]_vars

\* the <<nodeId, jointId>> pairs a caller passes: every joint of the scene under its
\* node, and a pair that names no joint
JointInputs ==
    {<<e.key, e.joint.id>> : e \in AllJoints(nodes)} \cup {<<rootId, GhostId>>}

\* the joint names in use
NamesInUse == {e.joint.name : e \in AllJoints(nodes)}

\* values a caller writes: inside the default ranges, and far outside on either side
WriteValues == {-500}

\* limits a caller writes: in order, reversed, and a range that excludes the default value
WriteLimits == {<<200, 100>>}

ValuePatches ==
    {[currentValue |-> v] : v \in WriteValues}
    \cup {[limits |-> l] : l \in WriteLimits}
    \cup {[limits |-> l, currentValue |-> v] : l \in WriteLimits, v \in {500}}

\* value maps of remote, interpolated and pose writers: one joint, or every joint
ValueMaps ==
    {[n \in NamesInUse \cup {Str("ghost", 0)} |-> v] : v \in {500}}

\* imported files: a joint whose limits are reversed and whose value lies outside them,
\* with a stored pose; and a joint whose limits are not numbers
ImportScenes ==
    {[rootId |-> Str("base", 0),
      nodes |-> <<[key |-> Str("base", 0),
                   node |-> [id |-> Str("base", 0),
                             joints |-> <<[id |-> Str("j", 0), name |-> Str("arm", 0),
                                           limits |-> <<Num(30), Num(-30)>>,
                                           currentValue |-> Num(700),
                                           externalControl |-> TRUE]>>]]>>,
      poses |-> <<[id |-> Str("pose", 1), name |-> PoseName("Pose", 1),
                   values |-> [n \in {Str("arm", 0)} |-> Num(-700)]]>>],
     [rootId |-> Str("base", 0),
      nodes |-> <<[key |-> Str("base", 0),
                   node |-> [id |-> Str("base", 0),
                             joints |-> <<[id |-> Str("k", 0), name |-> Str("wrist", 0),
                                           limits |-> <<NonNumeric, Num(5)>>,
                                           currentValue |-> Num(3)]>>]]>>]}

\* the builder store under every operation that writes joint limits or values
Next ==
    \/ \E kind \in {"box"} :
          /\ idCounter + 2 <= MaxValueIds
          /\ Cardinality(AllJoints(nodes)) < MaxJoints
          /\ addLink(kind)
          /\ UNCHANGED ik
    \/ \E nodeId \in IdInputs, type \in {"linear"} :
          /\ idCounter + 1 <= MaxValueIds
          /\ Cardinality(AllJoints(nodes)) < MaxJoints
          /\ addJoint(nodeId, type)
          /\ UNCHANGED ik
    \/ \E j \in JointInputs, patch \in ValuePatches :
          updateJoint(j[1], j[2], patch) /\ UNCHANGED ik
    \/ \E id \in {rootId, GhostId} :
          updateNode(id, [geometry |-> [height |-> 600]]) /\ UNCHANGED ik
    \/ \E j \in JointInputs : removeJoint(j[1], j[2]) /\ UNCHANGED ik
    \/ \E id \in IdInputs : removeLink(id) /\ UNCHANGED ik
    \/ startConnection /\ UNCHANGED ik
    \/ \E id \in DOMAIN nodes :
          connectMode /\ completeConnection(id) /\ UNCHANGED ik
    \/ \E values \in ValueMaps, source \in {"tcp"} :
          /\ networkEventCounter < MaxLogEvents
          /\ applyRemoteJointValues(values, source)
          /\ UNCHANGED ik
    \/ \E values \in ValueMaps :
          applyInterpolatedJointValues(values) /\ UNCHANGED ik
    \/ \E id \in {poses[i].id : i \in 1..Len(poses)} \cup {GhostId} :
          applyPose(id) /\ UNCHANGED ik
    \/ \E playing \in {TRUE} : setSimulationPlaying(playing) /\ UNCHANGED ik
    \/ \E w \in {1}, swing \in {1} :
          /\ simulationTime + 2 <= MaxSimTime
          /\ networkEventCounter < MaxLogEvents
          /\ advanceSimulation(2, [i \in 1..Cardinality(AllJoints(nodes)) |-> w], swing)
          /\ UNCHANGED ik
    \/ \E scene \in ImportScenes : importScene(scene) /\ UNCHANGED ik

Spec == Init /\ [][Next]_vars

\* names a caller types into a joint's name field: a name in use, a name in use with
\* white space around it, nothing, and a fresh name
NamePatches ==
    {[name |-> n] : n \in NamesInUse \cup {Padded(x.base, x.num) : x \in NamesInUse}
                         \cup {EmptyStr, Padded("", 0), Str("elbow", 0)}}
    \cup {[name |-> n, currentValue |-> 500, limits |-> <<30, -30>>] : n \in NamesInUse}

\* imported files: two joints with one id; two joints without ids whose names agree
\* once trimmed; a joint with neither id nor name
NameScenes ==
    {[rootId |-> Str("base", 0),
      nodes |-> <<[key |-> Str("base", 0),
                   node |-> [id |-> Str("base", 0),
                             joints |-> <<[id |-> Str("j", 0), name |-> Str("arm", 0)],
                                          [id |-> Str("j", 0), name |-> Str("wrist", 0)]>>]]>>],
     [rootId |-> Str("base", 0),
      nodes |-> <<[key |-> Str("base", 0),
                   node |-> [id |-> Str("base", 0),
                             joints |-> <<[name |-> Padded("arm", 0)],
                                          [name |-> Str("arm", 0)]>>]]>>],
     [rootId |-> Str("base", 0),
      nodes |-> <<[key |-> Str("base", 0),
                   node |-> [id |-> Str("base", 0),
                             joints |-> <<[type |-> "linear"]>>]]>>]}

\* the number of createId calls importScene makes for the joints of a file
MissingJointIds(scene) ==
    Cardinality({<<n, i>> \in (1..Len(scene.nodes)) \X (1..MaxJoints) :
                    /\ Has(scene.nodes[n].node, "joints")
                    /\ i <= Len(scene.nodes[n].node.joints)
                    /\ ~StringField(scene.nodes[n].node.joints[i], "id")})

\* the builder store under the operations that name joints
NextNames ==
    \/ \E kind \in {"box"} :
          /\ idCounter + 2 <= MaxNameIds
          /\ Cardinality(AllJoints(nodes)) < MaxJoints
          /\ addLink(kind)
          /\ UNCHANGED ik
    \/ \E nodeId \in IdInputs, type \in {"rotational"} :
          /\ idCounter + 1 <= MaxNameIds
          /\ Cardinality(AllJoints(nodes)) < MaxJoints
          /\ addJoint(nodeId, type)
          /\ UNCHANGED ik
    \/ \E j \in JointInputs, patch \in NamePatches :
          updateJoint(j[1], j[2], patch) /\ UNCHANGED ik
    \/ \E j \in JointInputs : removeJoint(j[1], j[2]) /\ UNCHANGED ik
    \/ \E id \in IdInputs : removeLink(id) /\ UNCHANGED ik
    \/ \E scene \in NameScenes :
          /\ idCounter + MissingJointIds(scene) <= MaxNameIds
          /\ importScene(scene)
          /\ UNCHANGED ik

SpecNames == Init /\ [][NextNames]_vars

\* ------------------------------------------------------------- network log
\* logNetworkEvent(direction, values, source), called by the network console
logNetworkEvent(direction, values, source) ==
    /\ last' = OtherOp
    /\ logNetworkEventUpdate(direction, values, source)
    /\ UNCHANGED <<nodes, nodeOrder, rootId, selectedId, connectMode, connectSourceId, poses,
                   simulationPlaying, simulationTime, idCounter>>

\* clearNetworkLog()
clearNetworkLog ==
    /\ last' = OtherOp
    /\ networkLog' = <<>>
    /\ UNCHANGED <<nodes, nodeOrder, rootId, selectedId, connectMode, connectSourceId, poses,
                   simulationPlaying, simulationTime, idCounter, networkEventCounter>>

\* the console's broadcast of one joint value, logged as outgoing
BroadcastValues == [n \in {Str("joint", 1)} |-> 20]

\* the builder store under the network console
NextLog ==
    \/ /\ networkEventCounter < MaxLogCalls
       /\ logNetworkEvent("outgoing", BroadcastValues, "manual")
       /\ UNCHANGED ik
    \/ clearNetworkLog /\ UNCHANGED ik

SpecLog == Init /\ [][NextLog]_vars

\* ------------------------------------------------------------ imported links
\* a link of an imported file
FileLink(key, parentId, children) ==
    [key |-> Str(key, 0),
     node |-> IF parentId = Undefined THEN [id |-> Str(key, 0), children |-> children]
              ELSE [id |-> Str(key, 0), parentId |-> parentId, children |-> children]]

\* imported files: a tree of four links; the same with the tool listed under a second
\* link as well; with the arm naming a parent other than the link that lists it; and a
\* file without links
LinkScenes ==
    {[rootId |-> Str("base", 0),
      nodes |-> <<FileLink("base", Undefined, <<Str("arm", 0), Str("side", 0)>>),
                  FileLink("arm", Str("base", 0), <<Str("tool", 0)>>),
                  FileLink("side", Str("base", 0), sideChildren),
                  FileLink("tool", Str("arm", 0), <<>>)>>] :
        sideChildren \in {<<>>, <<Str("tool", 0)>>}}
    \cup {[rootId |-> Str("base", 0),
           nodes |-> <<FileLink("base", Undefined, <<Str("arm", 0), Str("side", 0)>>),
                       FileLink("arm", Str("side", 0), <<>>),
                       FileLink("side", Str("base", 0), <<>>)>>],
          [rootId |-> Str("base", 0), nodes |-> <<>>]}

\* the builder store under file import and link removal
NextImport ==
    \/ \E scene \in LinkScenes : importScene(scene) /\ UNCHANGED ik
    \/ \E kind \in {"box"} :
          /\ idCounter + 2 <= MaxImportIds
          /\ addLink(kind)
          /\ UNCHANGED ik
    \/ \E id \in IdInputs \cup {Undefined} : selectNode(id) /\ UNCHANGED ik
    \/ \E id \in IdInputs : removeLink(id) /\ UNCHANGED ik

SpecImport == Init /\ [][NextImport]_vars

\* ------------------------------------------------------- remote joint values
\* the entries of a payload that are numbers: typeof nextValue !== 'number' skips the
\* others, as it skips names the payload lacks
numericEntries(payload) ==
    [n \in {k \in DOMAIN payload : payload[k].t = "num"} |-> payload[n].v]

\* applyRemoteJointValues(values, source) on a payload as it arrives: parsed JSON from
\* the TCP socket (source 'tcp'), or the console's draft (source 'manual')
applyRemotePayload(payload, source) ==
    applyRemoteJointValues(numericEntries(payload), source)

\* values a payload carries: inside a joint's default limits, beyond them on either
\* side, a string, null
RemoteValues == {Num(20), Num(500), Num(-500), NonNumeric, JsonNull}

\* payloads: one value under every joint name in use and a name no joint has, or under
\* one joint name only
RemotePayloads ==
    {[n \in keys |-> value] :
        keys \in {NamesInUse \cup {Str("ghost", 0)}} \cup {{n} : n \in NamesInUse},
        value \in RemoteValues}

RemoteSources == {"tcp", "manual"}

\* patches of the inspector's "Enable TCP control" checkbox
ControlPatches == {[externalControl |-> TRUE]}

\* the builder store under remote joint updates
NextRemote ==
    \/ \E kind \in {"box"} :
          idCounter + 2 <= MaxRemoteIds /\ addLink(kind) /\ UNCHANGED ik
    \/ \E nodeId \in DOMAIN nodes, type \in {"rotational", "linear"} :
          /\ idCounter + 1 <= MaxRemoteIds
          /\ Cardinality(AllJoints(nodes)) < MaxJoints
          /\ addJoint(nodeId, type)
          /\ UNCHANGED ik
    \/ \E j \in JointInputs, patch \in ControlPatches :
          updateJoint(j[1], j[2], patch) /\ UNCHANGED ik
    \/ \E payload \in RemotePayloads, source \in RemoteSources :
          /\ networkEventCounter < MaxRemoteEvents
          /\ applyRemotePayload(payload, source)
          /\ UNCHANGED ik

SpecRemote == Init /\ [][NextRemote]_vars

\* a link of a simulator scene
IkLink(id, parentId, children, baseOffset, joints) ==
    [id |-> id, parentId |-> parentId, children |-> children, baseOffset |-> baseOffset,
     geometry |-> [kind |-> "box", width |-> 400, height |-> 400, depth |-> 400],
     joints |-> joints]

IkJoint(id, type, axis, limits, currentValue, pivot) ==
    [id |-> Str(id, 0), type |-> type, axis |-> axis, limits |-> limits,
     currentValue |-> currentValue, name |-> Str(id, 0), externalControl |-> FALSE,
     pivot |-> pivot]

\* root plus one child 600 units out along x, the child carrying one rotational z joint
\* with limits [-90, 90]: [scene, heap]
TwoLinkChain(currentValue, pivot) ==
    [scene |->
        [rootId |-> Str("base", 0),
         order |-> <<Str("base", 0), Str("arm", 0)>>,
         nodes |-> [k \in {Str("base", 0), Str("arm", 0)} |->
                      IF k = Str("base", 0)
                      THEN IkLink(k, Undefined, <<Str("arm", 0)>>, <<0, 0, 0>>, <<>>)
                      ELSE IkLink(k, Str("base", 0), <<>>, <<600, 0, 0>>, <<1>>)]],
     heap |-> <<IkJoint("shoulder", "rotational", "z", <<-90, 90>>, currentValue, pivot)>>]

\* a root without joints; an arm turning about the root's axis; a tool sliding along the
\* arm; and a turned side link, off the arm's path, with a joint of its own
BranchedScene ==
    [scene |->
        [rootId |-> Str("base", 0),
         order |-> <<Str("base", 0), Str("arm", 0), Str("side", 0), Str("tool", 0)>>,
         nodes |-> [k \in {Str("base", 0), Str("arm", 0), Str("side", 0), Str("tool", 0)} |->
                      CASE k = Str("base", 0) ->
                              IkLink(k, Undefined, <<Str("arm", 0), Str("side", 0)>>,
                                     <<0, 0, 0>>, <<>>)
                        [] k = Str("arm", 0) ->
                              IkLink(k, Str("base", 0), <<Str("tool", 0)>>, <<600, 0, 0>>, <<1>>)
                        [] k = Str("side", 0) ->
                              [IkLink(k, Str("base", 0), <<>>, <<0, 400, 0>>, <<2>>)
                                  EXCEPT !.geometry = [kind |-> "sphere", radius |-> 100]]
                                 @@ [staticRotation |-> <<0, 0, 90>>]
                        [] OTHER ->
                              IkLink(k, Str("arm", 0), <<>>, <<200, 0, 0>>, <<3>>)]],
     heap |-> <<IkJoint("shoulder", "rotational", "z", <<-90, 90>>, 0, <<-600, 0, 0>>),
                IkJoint("swing", "rotational", "z", <<-180, 180>>, 10, <<-400, 0, 0>>),
                IkJoint("slide", "linear", "x", <<0, 150>>, 20, <<0, 0, 0>>)>>]

\* the two-link chain with a second joint on the arm: a slide along the arm's x axis
\* listed after the shoulder
TwoJointArm ==
    [scene |-> [TwoLinkChain(0, <<-600, 0, 0>>).scene
                   EXCEPT !.nodes[Str("arm", 0)].joints = <<1, 2>>],
     heap |-> <<IkJoint("shoulder", "rotational", "z", <<-90, 90>>, 0, <<-600, 0, 0>>),
                IkJoint("slide", "linear", "x", <<0, 150>>, 0, <<0, 0, 0>>)>>]

\* the scenes a caller solves: the two-link chain with its pivot at the joint's origin
\* and with its pivot on the root's axis, from several start angles; the branched scene;
\* the arm with two joints
IkScenes ==
    {TwoLinkChain(v, <<0, 0, 0>>) : v \in {0, 30}}
    \cup {TwoLinkChain(v, <<-600, 0, 0>>) : v \in {0, 80}}
    \cup {BranchedScene, TwoJointArm}

\* target points: the arm's start, a quarter turn, just past the quarter turn's
\* tolerance, 135 and -110 degrees around, beyond the arm's reach, off its plane, and
\* the root's own origin, and a point three degrees around from the arm's start
IkTargets ==
    {<<600, 0, 200>>, <<0, 600, 200>>, <<0, 615, 200>>, <<-424, 424, 200>>,
     <<-205, -564, 200>>, <<0, 900, 200>>, <<0, 600, 500>>, <<0, 0, 200>>,
     <<599, 31, 200>>}

IkOptions ==
    {<<>>, [tolerance |-> 40]} \cup {[maxIterations |-> m] : m \in {0, 1, 2}}

\* one call of the simulator's solver, step by step
NextIk ==
    \/ \E input \in IkScenes, targetNodeId \in {Str("base", 0), Str("arm", 0), Str("side", 0),
                                                Str("tool", 0), GhostId, EmptyStr},
          target \in IkTargets, options \in IkOptions :
          solveIkForNode(input.scene, input.heap, targetNodeId, target, options)
    \/ solveIkJoint
    \/ solveIkCheck
    \/ solveIkReturn

SpecIk == Init /\ [][NextIk]_vars

\* the call runs to completion: the solver is synchronous and nothing suspends it
SpecIkFair == SpecIk /\ WF_vars(solveIkJoint \/ solveIkCheck \/ solveIkReturn)

\* ids that name no node of the solver's scenes: one no object knows, the empty string,
\* and a name every object inherits
MissingIds == {GhostId, EmptyStr} \cup ObjectPrototypeKeys

\* calls of the solver for a target id that names no node
NextMissing ==
    \E input \in IkScenes, targetNodeId \in MissingIds, target \in IkTargets,
       options \in IkOptions :
       solveIkForNode(input.scene, input.heap, targetNodeId, target, options)

SpecMissing == Init /\ [][NextMissing]_vars

\* ------------------------------------------------- one visit, at fine resolution
\* The thresholds of lines 244-262 lie far below a whole degree and a position unit.
\* Here a rotational joint's value counts millionths of a degree and its raw correction
\* (angle) millionths of a radian; a linear joint's value counts millionths of a
\* millimetre and its raw correction (delta) thousand-millionths of a metre, so that
\* delta * M_TO_MM is delta itself.

\* Math.abs(angle) < 1e-4, in millionths of a radian
MinAngle == 100

\* Math.abs(delta) < 1e-5, in thousand-millionths of a metre
MinDelta == 10000

\* Math.abs(nextValue - joint.currentValue) < 1e-3, in millionths of the joint's unit
MinChange == 1000

\* THREE.MathUtils.radToDeg(angle): millionths of a radian to millionths of a degree
radToDeg(angle) == angle * 57 + RoundDiv(angle * 296, 1000)

\* the raw correction in the joint's unit, lines 247 and 261
correctionOf(type, raw) == IF type = "rotational" THEN radToDeg(raw) ELSE raw

\* the first skip, lines 244 and 258, for a finite raw correction
correctionNeverTooSmall(type, raw) == FALSE
correctionTooSmall(type, raw) ==
    IF type = "rotational" THEN MathAbs(raw) < MinAngle ELSE MathAbs(raw) < MinDelta

\* lines 244-252 and 258-266 for a joint past the degenerate-geometry skip: the value
\* the joint holds after the visit and whether the visit set updated
jointVisit(type, currentValue, limits, raw) ==
    IF correctionTooSmall(type, raw) THEN [currentValue |-> currentValue, updated |-> FALSE]
    ELSE \* the bound value is used twice
         TheOne({IF MathAbs(nextValue - currentValue) < MinChange
                 THEN [currentValue |-> currentValue, updated |-> FALSE]
                 ELSE [currentValue |-> nextValue, updated |-> TRUE] :
                 nextValue \in {kinematicsClamp(currentValue + correctionOf(type, raw),
                                                limits[1], limits[2])}})

\* one visit of the inner loop on a joint with this value, these limits and this raw
\* correction
visitJoint(type, currentValue, limits, raw) ==
    /\ ik.pc \in {"idle", "visited"}
    /\ ik' = [pc |-> "visited", type |-> type, before |-> currentValue, limits |-> limits,
              raw |-> raw, after |-> jointVisit(type, currentValue, limits, raw)]
    /\ UNCHANGED storeVars

\* limits in millionths: a quarter turn either way, and a 150 mm slide
VisitLimits == {<<-90000000, 90000000>>, <<0, 150000000>>}

\* start values: mid-range, at and just inside the upper limit, at the lower limits
VisitValues == {0, 30000000, 89999500, 90000000, 149999500, 150000000, -90000000}

\* raw corrections around the two thresholds, either sign, and large ones
VisitCorrections ==
    {0, 10, 17, 18, 50, 99, 100, 101, 999, 1000, 1001, 5000, 9999, 10000, 10001,
     17453, 1570796}
    \cup {-10, -50, -99, -100, -999, -1000, -9999, -10000, -17453}

NextVisit ==
    \E type \in {"rotational", "linear"}, limits \in VisitLimits, raw \in VisitCorrections :
       \E currentValue \in {v \in VisitValues : limits[1] <= v /\ v <= limits[2]} :
          visitJoint(type, currentValue, limits, raw)

SpecVisit == Init /\ [][NextVisit]_vars

\* --------------------------------------------------- the simulator's scene loader
\* A parsed JSON object is a record of the fields it has; an array is a sequence; a
\* number is Num(n), null is JsonNull, a string is Str(..) or, where only its being
\* non-numeric matters, NonNumeric. Fields that hold arrays hold arrays or are absent.
\* Lengths count position units (2000 to the metre), a scale factor counts thousandths.

\* typeof value === 'string'
IsString(value) == Has(value, "base") /\ value # Undefined /\ value # Null

\* entry?.field
Field(entry, field) == IF Has(entry, field) THEN entry[field] ELSE Undefined

\* array[index - 1]
At(array, index) == IF index <= Len(array) THEN array[index] ELSE Undefined

\* coerceNumber(value, fallback): Number(value) when finite, else the fallback
coerceNumber(value, fallback) ==
    IF value = Undefined THEN fallback
    ELSE IF value = EmptyStr THEN 0
    ELSE IF IsString(value) THEN fallback
    ELSE IF IsNum(ToNumber(value)) THEN ToNumber(value) ELSE fallback

\* 1e-3 as a length
MinLength == 2

\* 1e-3 as a scale factor
MinScale == 1

\* normalizeBounds(source, fallback)
normalizeBounds(source, fallback) ==
    [width |-> Max2(coerceNumber(Field(source, "width"), fallback.width), MinLength),
     depth |-> Max2(coerceNumber(Field(source, "depth"), fallback.depth), MinLength),
     height |-> Max2(coerceNumber(Field(source, "height"), fallback.height), MinLength),
     radial |-> Max2(coerceNumber(Field(source, "radial"), fallback.radial), MinLength)]

\* defaultBox() of the simulator's scene module
sceneDefaultBox == [kind |-> "box", width |-> 600, depth |-> 600, height |-> 600]

\* the fallback bounds of a custom mesh and of an unknown kind
DefaultBounds == [width |-> 600, depth |-> 600, height |-> 600, radial |-> 300]

\* normalizeGeometry(geometry)
normalizeGeometry(geometry) ==
    IF geometry = Undefined \/ geometry = JsonNull \/ ~Has(geometry, "kind") THEN sceneDefaultBox
    ELSE CASE geometry.kind = "box" ->
                [kind |-> "box",
                 width |-> Max2(coerceNumber(Field(geometry, "width"), 600), MinLength),
                 depth |-> Max2(coerceNumber(Field(geometry, "depth"), 600), MinLength),
                 height |-> Max2(coerceNumber(Field(geometry, "height"), 600), MinLength)]
           [] geometry.kind = "cylinder" ->
                [kind |-> "cylinder",
                 radius |-> Max2(coerceNumber(Field(geometry, "radius"), 360), MinLength),
                 height |-> Max2(coerceNumber(Field(geometry, "height"), 1000), MinLength)]
           [] geometry.kind = "sphere" ->
                [kind |-> "sphere",
                 radius |-> Max2(coerceNumber(Field(geometry, "radius"), 480), MinLength)]
           [] geometry.kind = "cone" ->
                [kind |-> "cone",
                 radius |-> Max2(coerceNumber(Field(geometry, "radius"), 320), MinLength),
                 height |-> Max2(coerceNumber(Field(geometry, "height"), 760), MinLength)]
           [] geometry.kind = "capsule" ->
                [kind |-> "capsule",
                 radius |-> Max2(coerceNumber(Field(geometry, "radius"), 240), MinLength),
                 length |-> Max2(coerceNumber(Field(geometry, "length"), 560), MinLength)]
           [] geometry.kind = "custom" ->
                [kind |-> "custom",
                 scale |-> Max2(coerceNumber(Field(geometry, "scale"), UnitScale), MinScale),
                 unitScale |-> Max2(coerceNumber(Field(geometry, "unitScale"), UnitScale),
                                    MinScale),
                 bounds |-> normalizeBounds(Field(geometry, "bounds"), DefaultBounds),
                 originOffset |->
                    LET origin == IF Has(geometry, "originOffset") THEN geometry.originOffset
                                  ELSE <<Num(0), Num(0), Num(0)>>
                    IN <<coerceNumber(At(origin, 1), 0), coerceNumber(At(origin, 2), 0),
                         coerceNumber(At(origin, 3), 0)>>]
           [] OTHER -> sceneDefaultBox

\* the text of an id: `${base}-${num}`
Text(s) == IF s.num = 0 THEN s.base ELSE s.base \o "-" \o ToString(s.num)

\* `${id}-joint-${index + 1}`
fallbackName(id, index) == Str(Text(id) \o "-joint", index)

\* typeof joint?.f === 'string' && joint.f.trim()
NonBlankString(entry, field) ==
    Has(entry, field) /\ IsString(entry[field]) /\ Trim(entry[field]) # EmptyStr

\* normalizeJoint(joint, fallbackName)
normalizeJoint(joint, fallback) ==
    LET type == IF Has(joint, "type") /\ joint.type = "linear" THEN "linear" ELSE "rotational"
        axis == IF Has(joint, "axis") /\ joint.axis \in {"x", "y"} THEN joint.axis ELSE "z"
        rawLimits == IF Has(joint, "limits") THEN joint.limits ELSE <<>>
        lower == coerceNumber(At(rawLimits, 1), IF type = "linear" THEN 0 ELSE -90)
        upper == coerceNumber(At(rawLimits, 2), IF type = "linear" THEN 150 ELSE 90)
        limits == <<MathMin(lower, upper), MathMax(lower, upper)>>
        rawValue == coerceNumber(Field(joint, "currentValue"),
                                 IF type = "linear" THEN limits[1] ELSE 0)
        pivotSource == IF Has(joint, "pivot") THEN joint.pivot ELSE <<Num(0), Num(0), Num(0)>>
    IN [id |-> IF NonBlankString(joint, "id") THEN joint.id ELSE fallback,
        type |-> type,
        axis |-> axis,
        limits |-> limits,
        currentValue |-> clamp(rawValue, limits[1], limits[2]),
        name |-> IF NonBlankString(joint, "name") THEN joint.name ELSE fallback,
        externalControl |-> Has(joint, "externalControl") /\ joint.externalControl = TRUE,
        pivot |-> <<coerceNumber(At(pivotSource, 1), 0), coerceNumber(At(pivotSource, 2), 0),
                    coerceNumber(At(pivotSource, 3), 0)>>]

\* randomId(): a fresh identifier, the n-th drawn
randomId(n) == Str("uuid", n)

\* Array.prototype.filter((child) => typeof child === 'string')
stringsOf(array) == SelectSeq(array, IsString)

\* normalizeNode(rawNode), rawNode being entry number n of the file: the node with its
\* joints as objects
normalizeNode(rawNode, n) ==
    LET id == IF NonBlankString(rawNode, "id") THEN rawNode.id ELSE randomId(n)
        rawBaseOffset == IF Has(rawNode, "baseOffset") THEN rawNode.baseOffset ELSE <<>>
        rawStaticRotation == IF Has(rawNode, "staticRotation") THEN rawNode.staticRotation
                             ELSE <<>>
        joints == IF Has(rawNode, "joints") THEN rawNode.joints ELSE <<>>
    IN [id |-> id,
        geometry |-> normalizeGeometry(Field(rawNode, "geometry")),
        parentId |-> IF Has(rawNode, "parentId") /\ IsString(rawNode.parentId)
                     THEN rawNode.parentId ELSE Undefined,
        children |-> IF Has(rawNode, "children") THEN stringsOf(rawNode.children) ELSE <<>>,
        baseOffset |-> <<coerceNumber(At(rawBaseOffset, 1), 0),
                         coerceNumber(At(rawBaseOffset, 2), 0),
                         coerceNumber(At(rawBaseOffset, 3), 0)>>,
        staticRotation |-> <<coerceNumber(At(rawStaticRotation, 1), 0),
                             coerceNumber(At(rawStaticRotation, 2), 0),
                             coerceNumber(At(rawStaticRotation, 3), 0)>>,
        joints |-> [i \in 1..Len(joints) |-> normalizeJoint(joints[i], fallbackName(id, i))]]

RECURSIVE normalizeNodes(_, _, _)
\* the loop of lines 263-266 over Object.entries(scene.nodes); acc: [nodes, order, heap],
\* the joint objects of a node placed in the heap and the node holding their addresses
normalizeNodes(entries, n, acc) ==
    IF n > Len(entries) THEN acc
    ELSE TheOne({normalizeNodes(entries, n + 1,
                    [nodes |-> (node.id :> [node EXCEPT !.joints =
                                              [i \in 1..Len(node.joints) |-> Len(acc.heap) + i]])
                               @@ acc.nodes,
                     order |-> PutOrder(acc.order, node.id),
                     heap |-> acc.heap \o node.joints]) :
                 node \in {normalizeNode(Spread([id |-> entries[n].key], entries[n].node), n)}})

\* the result of a call that threw
Threw == [threw |-> TRUE]

\* parseSceneData(raw): [threw, scene, heap], or Threw
parseSceneData(raw) ==
    IF raw = JsonNull \/ ~Has(raw, "nodes") THEN Threw
    ELSE TheOne({
        LET normalizedNodes ==
                [k \in DOMAIN parsed.nodes |->
                    [parsed.nodes[k] EXCEPT !.children =
                        SelectSeq(@, LAMBDA childId : \/ Has(parsed.nodes, childId)
                                                     \/ Inherited(parsed.nodes, childId))]]
            loadedRootId ==
                IF /\ Has(raw, "rootId")
                   /\ IsString(raw.rootId)
                   /\ Has(parsed.nodes, raw.rootId) \/ Inherited(parsed.nodes, raw.rootId)
                THEN raw.rootId
                ELSE IF parsed.order # <<>> THEN Head(parsed.order) ELSE Undefined
        IN IF ~Truthy(loadedRootId) THEN Threw
           ELSE [threw |-> FALSE,
                 scene |-> [rootId |-> loadedRootId, order |-> parsed.order,
                            nodes |-> normalizedNodes],
                 heap |-> parsed.heap] :
        parsed \in {normalizeNodes(raw.nodes, 1,
                                   [nodes |-> <<>>, order |-> <<>>, heap |-> <<>>])}})

\* handleFileSelected: parseSceneData(parsed), then loadScene(sceneData); a scene that
\* parseSceneData rejects is reported and not loaded
loadScene(raw) ==
    /\ ik.pc = "idle"
    /\ \E sceneData \in {parseSceneData(raw)} :
          ik' = IF sceneData.threw THEN [pc |-> "rejected"]
                ELSE [pc |-> "loaded", scene |-> sceneData.scene, heap |-> sceneData.heap]
    /\ UNCHANGED storeVars

\* SceneCanvas: computeKinematics(scene) is called on the loaded scene
kinematicsCall ==
    /\ ik.pc = "loaded"
    /\ ik' = [pc |-> "traverse", scene |-> ik.scene, heap |-> ik.heap]
    /\ UNCHANGED storeVars

\* traverse has visited every node below the root: computeKinematics returns
kinematicsReturn ==
    /\ ik.pc = "traverse"
    /\ ~kinematicsOverflows(ik.scene)
    /\ ik' = [ik EXCEPT !.pc = "rendered",
                        !.world = computeKinematics(Deref(ik.scene, ik.heap))]
    /\ UNCHANGED storeVars

\* traverse meets a node below itself: the recursion ends in a RangeError
kinematicsOverflow ==
    /\ ik.pc = "traverse"
    /\ kinematicsOverflows(ik.scene)
    /\ ik' = [ik EXCEPT !.pc = "rangeError"]
    /\ UNCHANGED storeVars

\* solveForTarget(nodeId, target): solveIkForNode(state.scene, nodeId, target) enters
\* gatherPath
solveForTarget(nodeId, target) ==
    /\ ik.pc = "loaded"
    /\ ik' = [pc |-> "gatherPath", scene |-> ik.scene, heap |-> ik.heap,
              targetNodeId |-> nodeId, target |-> target, current |-> nodeId,
              path |-> <<>>, beyond |-> 0]
    /\ UNCHANGED storeVars

\* one pass of gatherPath's loop, lines 129-132; path is kept root first, and of the
\* entries pushed beyond MaxPathLength only their number is kept, odd or even
gatherPathStep ==
    /\ ik.pc = "gatherPath"
    /\ Truthy(ik.current)
    /\ ik' = [ik EXCEPT
                !.path = IF Len(@) < MaxPathLength THEN <<ik.current>> \o @ ELSE @,
                !.beyond = IF Len(ik.path) < MaxPathLength THEN @ ELSE 1 - @,
                !.current = IF Has(ik.scene.nodes, ik.current)
                            THEN ik.scene.nodes[ik.current].parentId
                            ELSE Undefined]
    /\ UNCHANGED storeVars

\* gatherPath returns and solveIkForNode goes on from line 188, with default options
gatherPathReturn ==
    /\ ik.pc = "gatherPath"
    /\ ~Truthy(ik.current)
    /\ ik' = solveIkFromPath(ik.scene, ik.heap, ik.targetNodeId, ik.target, <<>>, ik.path)
    /\ UNCHANGED storeVars

\* a raw link
RawLink(parentId, children, joints) ==
    [parentId |-> parentId, children |-> children, joints |-> joints,
     baseOffset |-> <<Num(600), Num(0), Num(0)>>]

\* the parsed files handed to parseSceneData
RawScenes ==
    LET base == Str("base", 0)
        arm == Str("arm", 0)
        tool == Str("tool", 0)
        shoulder == [id |-> Str("shoulder", 0), name |-> Str("shoulder", 0),
                     pivot |-> <<Num(-600), Num(0), Num(0)>>]
    IN {\* a well-formed chain, its joint given by defaults alone
        [rootId |-> base,
         nodes |-> <<[key |-> base, node |-> [children |-> <<arm>>]],
                     [key |-> arm, node |-> RawLink(base, <<>>, <<shoulder>>)]>>],
        \* limits out of order, a value outside them, text where numbers belong
        [rootId |-> base,
         nodes |-> <<[key |-> base, node |-> [children |-> <<arm>>,
                                              geometry |-> [kind |-> "sphere"]]],
                     [key |-> arm,
                      node |-> RawLink(base, <<>>,
                                 <<[limits |-> <<Num(90), Num(-45)>>, currentValue |-> Num(200),
                                    type |-> "rotational", axis |-> "y"],
                                   [limits |-> <<NonNumeric, Num(40)>>, currentValue |-> NonNumeric,
                                    type |-> "linear", externalControl |-> TRUE],
                                   [limits |-> <<Num(10)>>, currentValue |-> JsonNull,
                                    name |-> Padded("", 0)]>>)]>>],
        \* a link that is its own parent and child
        [rootId |-> base,
         nodes |-> <<[key |-> base, node |-> RawLink(base, <<base>>, <<shoulder>>)]>>],
        \* two links, each the parent of the other; no child lists
        [rootId |-> base,
         nodes |-> <<[key |-> base, node |-> RawLink(arm, <<>>, <<>>)],
                     [key |-> arm, node |-> RawLink(base, <<>>, <<shoulder>>)]>>],
        \* child lists that loop under a chain of parents that ends
        [rootId |-> base,
         nodes |-> <<[key |-> base, node |-> [children |-> <<arm>>]],
                     [key |-> arm, node |-> RawLink(base, <<tool>>, <<shoulder>>)],
                     [key |-> tool, node |-> RawLink(arm, <<arm>>, <<>>)]>>],
        \* a parent that names no node, a child that names another parent, children
        \* that are no strings or name no node
        [rootId |-> Str("ghost", 0),
         nodes |-> <<[key |-> base, node |-> [children |-> <<arm, Num(3), Str("ghost", 0), tool>>]],
                     [key |-> arm, node |-> RawLink(Str("ghost", 0), <<>>, <<shoulder>>)],
                     [key |-> tool, node |-> RawLink(arm, <<>>, <<>>)]>>],
        \* entries that carry ids of their own, a string and a number, and a null entry
        [nodes |-> <<[key |-> base, node |-> [id |-> arm, children |-> <<arm>>]],
                     [key |-> tool, node |-> [id |-> Num(7), parentId |-> Num(1)]],
                     [key |-> Str("spare", 0), node |-> JsonNull]>>],
        \* two joints of one name, at different values
        [rootId |-> base,
         nodes |-> <<[key |-> base, node |-> [children |-> <<arm>>]],
                     [key |-> arm,
                      node |-> RawLink(base, <<>>,
                                 <<[currentValue |-> Num(10)] @@ shoulder,
                                   [id |-> Str("elbow", 0), name |-> Str("shoulder", 0),
                                    currentValue |-> Num(20)]>>)]>>],
        \* no nodes
        [rootId |-> base, nodes |-> <<>>],
        \* no nodes field
        [rootId |-> base],
        \* null
        JsonNull}

\* the ids a user can drag and one that names nothing
LoadTargetIds == {Str("base", 0), Str("arm", 0), Str("tool", 0), GhostId}

\* the simulator: a file is loaded, the canvas computes its kinematics, a drag solves
NextLoad ==
    \/ \E raw \in RawScenes : loadScene(raw)
    \/ kinematicsCall
    \/ kinematicsReturn
    \/ kinematicsOverflow
    \/ \E nodeId \in LoadTargetIds, target \in {<<0, 600, 600>>, <<600, 0, 300>>} :
          solveForTarget(nodeId, target)
    \/ gatherPathStep
    \/ gatherPathReturn
    \/ solveIkJoint
    \/ solveIkCheck
    \/ solveIkOverflow
    \/ solveIkReturn

SpecLoad == Init /\ [][NextLoad]_vars

\* every call is synchronous: once begun it runs on
SpecLoadFair ==
    SpecLoad /\ WF_vars(kinematicsReturn \/ kinematicsOverflow \/ gatherPathStep
                        \/ gatherPathReturn \/ solveIkJoint \/ solveIkCheck
                        \/ solveIkOverflow \/ solveIkReturn)

\* ------------------------------------------------- the simulator's store
RECURSIVE sceneObjectsFrom(_, _, _, _)
\* the scene and the joint objects it refers to, in the order of its nodes; joint objects
\* that no node of the scene refers to are left behind
sceneObjectsFrom(scene, heap, index, acc) ==
    IF index > Len(scene.order) THEN acc
    ELSE LET id == scene.order[index]
             joints == scene.nodes[id].joints
             base == Len(acc.heap)
         IN sceneObjectsFrom(scene, heap, index + 1,
               [scene |-> [acc.scene EXCEPT !.nodes[id].joints =
                              [i \in 1..Len(joints) |-> base + i]],
                heap |-> acc.heap \o [i \in 1..Len(joints) |-> heap[joints[i]]]])

sceneObjects(scene, heap) == sceneObjectsFrom(scene, heap, 1, [scene |-> scene, heap |-> <<>>])

\* a store that keeps its scene when the solve did not succeed
committedOnSuccess(result, scene, input, heap) ==
    IF result.success THEN sceneObjects(result.scene, heap) ELSE sceneObjects(scene, input)

\* set({ scene: result.scene }), line 27
committed(result, scene, input, heap) == sceneObjects(result.scene, heap)

\* solveForTarget, lines 27-28: the solver has returned; the store takes result.scene
\* and the caller gets jointValues and success
solveForTargetCommit ==
    /\ ik.pc = "done"
    /\ \E next \in {committed(ik.result, ik.scene, ik.input, ik.heap)} :
          ik' = [pc |-> "loaded", scene |-> next.scene, heap |-> next.heap,
                 returned |-> [jointValues |-> ik.result.jointValues,
                               success |-> ik.result.success]]
    /\ UNCHANGED storeVars

\* solveForTarget, lines 22-25: no scene in the store
solveForTargetNoScene ==
    /\ ik.pc \in {"idle", "rejected"}
    /\ ik' = [pc |-> ik.pc, returned |-> Null]
    /\ UNCHANGED storeVars

\* the simulator with its store: every solve is committed, and the next starts from it
NextDrag ==
    \/ NextLoad
    \/ solveForTargetCommit
    \/ solveForTargetNoScene

SpecDrag == Init /\ [][NextDrag]_vars

\* ------------------------------------------------- forward kinematics queries
\* a walk that leaves every joint at its rest value
jointsAfterKinematicsAtRest(heap) ==
    [address \in DOMAIN heap |-> [heap[address] EXCEPT !.currentValue = 0]]

\* the joint objects of the scene after a call of computeKinematics: traverse reads
\* node and joint fields and assigns to none of them
jointsAfterKinematics(heap) == heap

\* SceneCanvas: world = computeKinematics(scene), recomputed on every query
kinematicsQuery ==
    /\ ik.pc \in {"scene", "computed", "measured"}
    /\ ik.queries < MaxQueries
    /\ \E world \in {computeKinematics(Deref(ik.scene, ik.heap))} :
          ik' = IF kinematicsThrows(ik.scene) THEN [ik EXCEPT !.pc = "typeError"]
                ELSE [ik EXCEPT !.pc = "computed", !.previous = ik.world, !.world = world,
                                !.heap = jointsAfterKinematics(ik.heap),
                                !.queries = ik.queries + 1]
    /\ UNCHANGED storeVars

\* SceneCanvas: getGeometryBounds(node.geometry) sizes a node's indicator
boundsQuery(nodeId) ==
    /\ ik.pc \in {"scene", "computed"}
    /\ Has(ik.scene.nodes, nodeId)
    /\ ik' = [ik EXCEPT !.pc = "measured", !.nodeId = nodeId,
                        !.bounds = getGeometryBounds(ik.scene.nodes[nodeId].geometry)]
    /\ UNCHANGED storeVars

\* geometries as the scene module stores them, and records of no known kind
GeometryInputs ==
    {[kind |-> "box", width |-> d[1], depth |-> d[2], height |-> d[3]] :
        d \in {<<400, 400, 400>>, <<600, 200, 300>>, <<200, 600, 2>>}}
    \cup {[kind |-> "cylinder", radius |-> d[1], height |-> d[2]] :
            d \in {<<360, 1000>>, <<100, 300>>}}
    \cup {[kind |-> "sphere", radius |-> r] : r \in {480, 100}}
    \cup {[kind |-> "cone", radius |-> 320, height |-> 760]}
    \cup {[kind |-> "capsule", radius |-> d[1], length |-> d[2]] :
            d \in {<<240, 560>>, <<2, 2>>}}
    \cup {[kind |-> "custom", sourceName |-> "Custom Mesh", data |-> "", scale |-> scale,
           unitScale |-> UnitScale, originOffset |-> <<0, 0, 0>>,
           bounds |-> [width |-> 600, depth |-> 400, height |-> 800, radial |-> 300]] :
            scale \in {UnitScale, 500, 2500, MinScale}}
    \cup {[width |-> 400, depth |-> 400, height |-> 400],
          [kind |-> "torus", radius |-> 100, height |-> 200],
          [kind |-> "", radius |-> 100]}

\* joints a root may carry: none; the builder's default joint, turning about the
\* vertical through the link's foot; a joint tilting about x; a joint sliding along z
RootJointInputs ==
    {<<>>,
     <<IkJoint("turntable", "rotational", "z", <<-90, 90>>, 30, <<0, 0, -200>>)>>,
     <<IkJoint("tilt", "rotational", "x", <<-90, 90>>, 30, <<0, 0, -200>>)>>,
     <<IkJoint("lift", "linear", "z", <<0, 150>>, 50, <<0, 0, -200>>)>>}

\* a root and one child of the same geometry; the child carries a joint about x and
\* then a joint about y, each with a pivot of its own: [scene, heap]
WristScene(geometry, rootOffset, armOffset, rootJoints, values) ==
    [scene |->
        [rootId |-> Str("base", 0),
         order |-> <<Str("base", 0), Str("arm", 0)>>,
         nodes |-> [k \in {Str("base", 0), Str("arm", 0)} |->
                      IF k = Str("base", 0)
                      THEN [IkLink(k, Undefined, <<Str("arm", 0)>>, rootOffset,
                                   [i \in 1..Len(rootJoints) |-> 2 + i])
                               EXCEPT !.geometry = geometry]
                      ELSE [IkLink(k, Str("base", 0), <<>>, armOffset, <<1, 2>>)
                               EXCEPT !.geometry = geometry]]],
     heap |-> <<IkJoint("pitch", "rotational", "x", <<-90, 90>>, values[1], <<0, 0, -200>>),
                IkJoint("roll", "rotational", "y", <<-45, 45>>, values[2], <<-100, 0, 50>>)>>
              \o rootJoints]

\* the scene without the joints of one node
WithoutJoints(input, nodeId) ==
    [input EXCEPT !.scene.nodes[nodeId].joints = <<>>]

BoxGeometry == [kind |-> "box", width |-> 400, depth |-> 400, height |-> 400]

\* the branched scene with children lists that name ids without a node, first, between
\* and after the children that exist, and with a link no children list names; the same
\* under a rootId without a node; children lists that name what every object inherits
DanglingScenes ==
    {[BranchedScene EXCEPT
         !.scene.rootId = root,
         !.scene.order = @ \o <<Str("spare", 0)>>,
         !.scene.nodes =
            [k \in (DOMAIN @) \cup {Str("spare", 0)} |->
                CASE k = Str("spare", 0) -> IkLink(k, Str("base", 0), <<>>, <<0, 0, 900>>, <<>>)
                  [] k = Str("base", 0) -> [@[k] EXCEPT !.children = baseChildren]
                  [] k = Str("tool", 0) -> [@[k] EXCEPT !.children = toolChildren]
                  [] OTHER -> @[k]]] :
        root \in {Str("base", 0), GhostId},
        baseChildren \in {<<GhostId, Str("arm", 0), Str("side", 0)>>,
                          <<Str("arm", 0), GhostId, Str("side", 0)>>,
                          <<Str("side", 0), Str("arm", 0), Str("ghost", 1)>>},
        toolChildren \in {<<>>, <<GhostId>>, <<Str("constructor", 0)>>}}

\* the scenes queried: every geometry under several root offsets, with and without
\* joints on the child, the root's origin on the ground or the root's frame at the
\* world's origin; roots carrying a joint; a child with joints under a root whose frame
\* is the world's; the solver's scenes
FkScenes ==
    {WristScene(geometry, rootOffset, <<600, 0, 300>>, <<>>, <<0, 0>>) :
        geometry \in GeometryInputs, rootOffset \in {<<0, 0, 0>>, <<100, -50, 0>>}}
    \cup {WithoutJoints(WristScene(geometry, <<0, 0, -(getGeometryBounds(geometry).height \div 2)>>,
                                   armOffset, <<>>, <<0, 0>>), Str("arm", 0)) :
            geometry \in GeometryInputs, armOffset \in {<<600, 0, 300>>, <<0, -20, -70>>}}
    \cup {WristScene(BoxGeometry, <<0, 0, 0>>, <<600, 0, 300>>, rootJoints, values) :
            rootJoints \in RootJointInputs, values \in {<<0, 0>>, <<40, -45>>, <<-90, 30>>}}
    \cup {WristScene(BoxGeometry, <<0, 0, -200>>, <<600, 0, 300>>, <<>>, values) :
            values \in {<<0, 0>>, <<40, -45>>}}
    \cup IkScenes
    \cup DanglingScenes

InitFk ==
    /\ InitStore
    /\ ik \in {[pc |-> "scene", scene |-> input.scene, heap |-> input.heap, queries |-> 0,
                world |-> <<>>, previous |-> <<>>, nodeId |-> Undefined, bounds |-> <<>>] :
               input \in FkScenes}

NextFk ==
    \/ kinematicsQuery
    \/ \E nodeId \in {Str("base", 0), Str("arm", 0), Str("side", 0)} : boundsQuery(nodeId)

SpecFk == InitFk /\ [][NextFk]_vars

\* ----------------------------------------------------- joint limits and values
\* the joints of the scene for which updateJoint(nodeId, jointId, patch) finds a joint
Found(nodeId, jointId) ==
    Has(nodes, nodeId) /\ findJointIndex(nodes[nodeId].joints, jointId) # 0

\* C1: updateJoint on an existing joint stores the patched (or else the existing) limits
\* as [min(a, b), max(a, b)] and stores the patched (or else the previous) value v as
\* min(max(v, lo), hi), for numbers a, b and v; the write is never refused.
C1_UpdateJointClamps ==
    [][\A j \in JointInputs, patch \in ValuePatches :
          (/\ updateJoint(j[1], j[2], patch)
           /\ Found(j[1], j[2]))
          => LET index == findJointIndex(nodes[j[1]].joints, j[2])
                 before == nodes[j[1]].joints[index]
                 after == nodes'[j[1]].joints[index]
                 a == IF Has(patch, "limits") THEN patch.limits[1] ELSE before.limits[1]
                 b == IF Has(patch, "limits") THEN patch.limits[2] ELSE before.limits[2]
                 v == IF Has(patch, "currentValue") THEN patch.currentValue
                      ELSE before.currentValue
                 lo == IF a < b THEN a ELSE b
                 hi == IF a < b THEN b ELSE a
             IN (IsNum(a) /\ IsNum(b) /\ IsNum(v))
                => /\ after.limits = <<lo, hi>>
                   /\ after.currentValue = (IF v < lo THEN lo ELSE IF v > hi THEN hi ELSE v)
                   /\ after.id = before.id]_vars

\* updateJoint has just written a joint whose limits arrived reversed, and pulled the
\* value, which lay below them, up to the lower limit
C1_Witness ==
    /\ last.op = "updateJoint"
    /\ \E e \in AllJoints(nodes) :
          e.joint.limits = <<100, 200>> /\ e.joint.currentValue = 100

\* C2 (as stated): every joint has lo <= hi and lo <= currentValue <= hi
C2_LimitsOrderedValueWithin ==
    \A e \in AllJoints(nodes) :
        /\ Lte(e.joint.limits[1], e.joint.limits[2])
        /\ Lte(e.joint.limits[1], e.joint.currentValue)
        /\ Lte(e.joint.currentValue, e.joint.limits[2])

\* C3 (as stated): no two joints of the scene have the same name
C3_JointNamesUnique ==
    \A e1, e2 \in AllJoints(nodes) : e1 # e2 => e1.joint.name # e2.joint.name

\* ------------------------------------------------------------ scene graph
\* the number of places node id n takes in children lists
ChildSlots(ns, n) ==
    Cardinality({<<k, i>> \in (DOMAIN ns) \X (1..Cardinality(DOMAIN ns)) :
                    i <= Len(ns[k].children) /\ ns[k].children[i] = n})

RECURSIVE ReachesRoot(_, _, _, _)
\* following parentId from n arrives at root, within fuel steps
ReachesRoot(ns, root, n, fuel) ==
    IF n = root THEN TRUE
    ELSE IF fuel = 0 \/ ~Has(ns, n) THEN FALSE
    ELSE ReachesRoot(ns, root, ns[n].parentId, fuel - 1)

RECURSIVE DescendantsOf(_, _, _)
\* the nodes below id, by children lists
DescendantsOf(ns, id, fuel) ==
    IF fuel = 0 \/ ~Has(ns, id) THEN {}
    ELSE Range(ns[id].children) \cup
         UNION {DescendantsOf(ns, c, fuel - 1) : c \in Range(ns[id].children)}

\* C4: the parent/child graph is a tree: rootId names the one node without parentId,
\* every other parentId and every listed child resolve, children lists agree with
\* parentId, every non-root node is listed exactly once, and every parent chain ends at
\* the root without repeating a node.
C4_TreeInvariant ==
    /\ Has(nodes, rootId)
    /\ nodes[rootId].parentId = Undefined
    /\ \A k \in DOMAIN nodes :
        /\ k # rootId => (Truthy(nodes[k].parentId) /\ Has(nodes, nodes[k].parentId))
        /\ \A i \in 1..Len(nodes[k].children) :
              /\ Has(nodes, nodes[k].children[i])
              /\ nodes[nodes[k].children[i]].parentId = k
        /\ k # rootId => ChildSlots(nodes, k) = 1
        /\ k = rootId => ChildSlots(nodes, k) = 0
        /\ ReachesRoot(nodes, rootId, k, Cardinality(DOMAIN nodes) - 1)

\* a re-parenting has taken place under a node that already had a child
C4_Witness ==
    /\ last.op = "completeConnection"
    /\ last.moved
    /\ Len(nodes[last.targetId].children) >= 2
    /\ \E k \in DOMAIN nodes : nodes[k].children = <<>> /\ k # last.sourceId

\* C5: completeConnection with the source itself, a descendant of the source, or with
\* the root as source leaves the nodes map as it was and leaves connect mode.
C5_NoCycleReparent ==
    [][(/\ last'.op = "completeConnection"
        /\ Truthy(connectSourceId)
        /\ \/ last'.targetId = connectSourceId
           \/ connectSourceId = rootId
           \/ last'.targetId \in DescendantsOf(nodes, connectSourceId,
                                               Cardinality(DOMAIN nodes)))
       => (/\ nodes' = nodes
           /\ connectMode' = FALSE
           /\ connectSourceId' = Undefined)]_vars

\* a connection onto a grandchild of the source was attempted and refused
C5_Witness ==
    /\ last.op = "completeConnection"
    /\ Truthy(last.sourceId)
    /\ ~last.moved
    /\ ~connectMode
    /\ Has(nodes, last.targetId)
    /\ Has(nodes, nodes[last.targetId].parentId)
    /\ nodes[nodes[last.targetId].parentId].parentId = last.sourceId

\* ------------------------------------------------------------ the solver
RECURSIVE PathNodes(_, _, _)
\* the ids from id up to the root, by parentId
PathNodes(scene, id, fuel) ==
    IF fuel = 0 \/ ~Truthy(id) THEN {}
    ELSE {id} \cup (IF Has(scene.nodes, id)
                    THEN PathNodes(scene, scene.nodes[id].parentId, fuel - 1) ELSE {})

\* the nodes of the caller's scene on the root-to-target path of the call
IkPath == PathNodes(ik.scene, ik.targetNodeId, Cardinality(DOMAIN ik.scene.nodes) + 1)
             \cap DOMAIN ik.scene.nodes

\* the joint objects of node id of a scene
JointsOf(scene, heap, id) ==
    [i \in 1..Len(scene.nodes[id].joints) |-> heap[scene.nodes[id].joints[i]]]

\* the call has returned
IkDone == ik.pc = "done"

\* the root-to-target path of the call carries no joint
NoJointsOnPath == \A id \in IkPath : ik.scene.nodes[id].joints = <<>>

\* some joint on the path has another value in the returned scene than in the input
IkMoved ==
    \E id \in IkPath : \E i \in 1..Len(ik.scene.nodes[id].joints) :
        JointsOf(ik.result.scene, ik.heap, id)[i].currentValue
            # JointsOf(ik.scene, ik.input, id)[i].currentValue

\* the squared distance from the target node's world origin to the target point in the
\* returned scene
IkResultDistance2 ==
    Distance2(computeKinematics(Deref(ik.result.scene, ik.heap))[ik.targetNodeId].position,
              ik.target)

\* C6: in the scene solveIkForNode returns, every joint of every node off the
\* root-to-target path is the joint of the input scene: value, limits, axis, pivot, name.
C6_OffPathJointsUnchanged ==
    IkDone => \A id \in (DOMAIN ik.scene.nodes) \ IkPath :
                 /\ Has(ik.result.scene.nodes, id)
                 /\ JointsOf(ik.result.scene, ik.heap, id) = JointsOf(ik.scene, ik.input, id)

\* a solve for the tool has moved joints on its path, with the side link's joint off it
C6_Witness ==
    /\ IkDone
    /\ IkMoved
    /\ \E id \in (DOMAIN ik.scene.nodes) \ IkPath : ik.scene.nodes[id].joints # <<>>

\* C7: throughout a call and after it, every joint object of the caller's scene is what
\* it was at the call; the joints of the path's nodes in the returned scene are copies,
\* not the caller's objects.
C7_CallerSceneUntouched ==
    ik.pc # "idle" =>
        /\ \A a \in 1..Len(ik.input) : ik.heap[a] = ik.input[a]
        /\ (IkDone /\ ~NoJointsOnPath) =>
              \A id \in IkPath : \A i \in 1..Len(ik.result.scene.nodes[id].joints) :
                  ik.result.scene.nodes[id].joints[i] > Len(ik.input)

\* a call has returned after two sweeps that wrote joint values
C7_Witness ==
    /\ IkDone
    /\ ik.iteration >= 1
    /\ IkMoved

\* C8: a call whose path carries no joint is over at once: success = false, the
\* snapshot holds the input scene's value under each joint name, the scene returned is
\* the caller's, and computeKinematics was not called.
C8_NoJointsReturnsAtOnce ==
    (ik.pc # "idle" /\ NoJointsOnPath) =>
        /\ IkDone
        /\ ik.result.success = FALSE
        /\ DOMAIN ik.result.jointValues = {ik.input[a].name : a \in 1..Len(ik.input)}
        /\ \A a \in 1..Len(ik.input) :
              ik.result.jointValues[ik.input[a].name] = ik.input[a].currentValue
        /\ ik.result.scene = ik.scene
        /\ ik.heap = ik.input
        /\ ik.fkCalls = 0

\* a solve for the root, which has no joints, with the target point on the root's
\* origin, in a scene that has joints elsewhere
C8_Witness ==
    /\ IkDone
    /\ NoJointsOnPath
    /\ ik.targetNodeId = ik.scene.rootId
    /\ Len(ik.input) > 0
    /\ Distance2(computeKinematics(Deref(ik.scene, ik.input))[ik.targetNodeId].position,
                 ik.target) <= ik.tolerance * ik.tolerance

\* C9: with a joint on the path and maxIterations >= 1, success is true exactly when the
\* target node's world origin in the returned scene is within tolerance of the target
\* point, and the joint objects are those the last distance check saw.
C9_SuccessIffWithinTolerance ==
    (IkDone /\ ~NoJointsOnPath /\ ik.maxIterations >= 1) =>
        /\ ik.result.success <=> (IkResultDistance2 <= ik.tolerance * ik.tolerance)
        /\ ik.checked = ik.heap

\* a solve has succeeded after moving a joint
C9_Witness ==
    /\ IkDone
    /\ ~NoJointsOnPath
    /\ ik.maxIterations >= 1
    /\ ik.result.success
    /\ IkMoved

\* the call is for the child of a two-link chain whose one joint is rotational about
\* z, has limits [-90, 90] and its pivot at the origin
OnPivotChain ==
    /\ ik.pc # "idle"
    /\ Cardinality(DOMAIN ik.scene.nodes) = 2
    /\ Len(ik.input) = 1
    /\ ik.targetNodeId # ik.scene.rootId
    /\ Has(ik.scene.nodes, ik.targetNodeId)
    /\ ik.scene.nodes[ik.targetNodeId].joints = <<1>>
    /\ ik.input[1].type = "rotational"
    /\ ik.input[1].axis = "z"
    /\ ik.input[1].limits = <<-90, 90>>
    /\ ik.input[1].pivot = <<0, 0, 0>>

\* the squared distance from the target node's world origin to the target point when
\* the one joint of the caller's chain is set to theta
DistanceAt2(theta) ==
    Distance2(computeKinematics(
                  Deref(ik.scene, <<[ik.input[1] EXCEPT !.currentValue = theta]>>)
              )[ik.targetNodeId].position, ik.target)

\* on that chain, the target point is out of tolerance of the child's world origin at
\* the joint's limits and at its middle
UnreachableOnPivotChain ==
    /\ OnPivotChain
    /\ \A theta \in {-90, 0, 90} : DistanceAt2(theta) > ik.tolerance * ik.tolerance

DefaultOptions ==
    ik.maxIterations = DefaultMaxIterations /\ ik.tolerance = DefaultTolerance

\* the value of the chain's one joint in the returned scene
ChainResultValue == JointsOf(ik.result.scene, ik.heap, ik.targetNodeId)[1].currentValue

ChainLength ==
    Cardinality({<<id, i>> \in IkPath \X (1..Len(ik.input)) :
                    i <= Len(ik.scene.nodes[id].joints)})

CallRunning == ik.pc \in {"traverse", "gatherPath", "joint", "check", "return"}

\* the call has returned to its caller
CallReturned == ik.pc \in {"rendered", "done"}

\* the call is over: it has returned, or it has ended in an error
CallEnded == CallReturned \/ ik.pc = "rangeError"

\* C13: on every scene parseSceneData returns, for every target node id, a call of
\* computeKinematics and a call of solveIkForNode that has begun comes to an end.
C13_CallsOnLoadedScenesEnd == CallRunning ~> CallEnded

\* the scene parseSceneData returned has just been loaded
SceneLoaded == ik.pc = "loaded"

\* the links of the loaded scene agree: the root exists, each listed child exists and
\* names the listing node as its parent, each parent named exists
LoadedLinksAgree ==
    LET ns == ik.scene.nodes IN
    /\ Has(ns, ik.scene.rootId)
    /\ \A k \in DOMAIN ns : \A i \in 1..Len(ns[k].children) :
           Has(ns, ns[k].children[i]) /\ ns[ns[k].children[i]].parentId = k
    /\ \A k \in DOMAIN ns : ns[k].parentId # Undefined => Has(ns, ns[k].parentId)

\* every joint of the loaded scene has ordered limits and a value within them
LoadedJointsWithinLimits ==
    \A k \in DOMAIN ik.scene.nodes : \A i \in 1..Len(ik.scene.nodes[k].joints) :
        LET joint == ik.heap[ik.scene.nodes[k].joints[i]]
        IN Lte(joint.limits[1], joint.currentValue) /\ Lte(joint.currentValue, joint.limits[2])

\* C14: in every scene parseSceneData returns, rootId names a node, every listed child
\* is a node whose parentId is the listing node, every defined parentId names a node,
\* and every joint has limits[0] <= currentValue <= limits[1].
C14_ParsedSceneWellFormed == SceneLoaded => LoadedLinksAgree /\ LoadedJointsWithinLimits

\* ------------------------------------------------------ forward kinematics
FkComputed == ik.pc = "computed"

\* the rotational joints of the nodes reported: <<node id, index on the node>>
RotationalJoints ==
    {e \in {<<id, i>> : id \in DOMAIN ik.scene.nodes, i \in 1..MaxJoints} :
        /\ Has(ik.world, e[1])
        /\ e[2] <= Len(ik.scene.nodes[e[1]].joints)
        /\ ik.heap[ik.scene.nodes[e[1]].joints[e[2]]].type = "rotational"}

\* values within the joint's limits: both limits and every AngleStep degrees between
SampledValues(joint) ==
    {joint.limits[1], joint.limits[2]}
    \cup {v \in joint.limits[1]..joint.limits[2] : v % AngleStep = 0}

\* the world pivot computeKinematics reports for joint e when that joint stands at value
PivotAtValue(e, value) ==
    LET address == ik.scene.nodes[e[1]].joints[e[2]]
        turned == [ik.heap EXCEPT ![address].currentValue = value]
    IN computeKinematics(Deref(ik.scene, turned))[e[1]].joints[e[2]].pivot

\* the world point the node's transform gives joint e's pivot once the joint has
\* contributed: the node's world matrix when its joints end with e
PivotAfterJoint(e) ==
    LET ended == [ik.scene EXCEPT !.nodes[e[1]].joints = SubSeq(@, 1, e[2])]
        matrix == computeKinematics(Deref(ended, ik.heap))[e[1]].worldMatrix
    IN applyMatrix4(ik.heap[ik.scene.nodes[e[1]].joints[e[2]]].pivot, matrix)

\* C15: for a rotational joint, the world pivot computeKinematics reports is the same
\* for every value of that joint within its limits, the other joints held fixed, and
\* the joint's pivot point has the same world position before and after the joint's
\* contribution to the node's transform.
C15_PivotFixedUnderOwnJoint ==
    FkComputed =>
        \A e \in RotationalJoints :
            \E reported \in {ik.world[e[1]].joints[e[2]].pivot} :
                /\ \A value \in SampledValues(ik.heap[ik.scene.nodes[e[1]].joints[e[2]]]) :
                       PivotAtValue(e, value) = reported
                /\ PivotAfterJoint(e) = reported

\* a node with two turned rotational joints whose pivots lie off the node's origin: the
\* node's origin has moved with the joints
C15_Witness ==
    /\ FkComputed
    /\ Has(ik.scene.nodes, Str("arm", 0))
    /\ Len(ik.scene.nodes[Str("arm", 0)].joints) = 2
    /\ \A i \in 1..2 : LET joint == ik.heap[ik.scene.nodes[Str("arm", 0)].joints[i]] IN
           joint.type = "rotational" /\ joint.currentValue # 0 /\ joint.pivot # <<0, 0, 0>>
    /\ ik.world[Str("arm", 0)].position # PivotAtValue(<<Str("arm", 0), 1>>, 0)
    /\ ik.world[Str("arm", 0)].position
          # computeKinematics(Deref(ik.scene,
                [ik.heap EXCEPT ![1].currentValue = 0, ![2].currentValue = 0]))[Str("arm", 0)].position

JointKeepsOrigin(joint) ==
    \/ joint.currentValue = 0
    \/ /\ joint.type = "rotational"
       /\ \A i \in 1..3 : axisToVector(joint.axis)[i] = 0 => joint.pivot[i] = 0

KeepsOrigin(nodeId) ==
    \A i \in 1..Len(ik.scene.nodes[nodeId].joints) :
        JointKeepsOrigin(ik.heap[ik.scene.nodes[nodeId].joints[i]])

\* half the height of the node's geometry
HalfHeight(nodeId) == getGeometryBounds(ik.scene.nodes[nodeId].geometry).height \div 2

\* the nodes other than the root whose parent's world transform is the identity
UnderIdentityParent ==
    {nodeId \in DOMAIN ik.world :
        /\ nodeId # ik.scene.rootId
        /\ Has(ik.world, ik.scene.nodes[nodeId].parentId)
        /\ ik.world[ik.scene.nodes[nodeId].parentId].worldMatrix = IdentityMatrix}

\* the vertical component of every root and of every node under an identity parent is
\* as the sentence gives it, whatever joints the node carries
VerticalAsStated(nodeIds) ==
    /\ ik.scene.rootId \in nodeIds /\ ik.scene.nodes[ik.scene.rootId].baseOffset[3] = 0
          => ik.world[ik.scene.rootId].position[3] = HalfHeight(ik.scene.rootId)
    /\ \A nodeId \in UnderIdentityParent \cap nodeIds :
          ik.world[nodeId].position[3] = ik.scene.nodes[nodeId].baseOffset[3]

\* C17: a root with geometry height h and baseOffset (x, y, 0) whose joints leave its
\* origin in place has world origin z = h/2; a node other than the root, under a parent
\* whose world transform is the identity and with joints that leave its origin in
\* place, has world origin z equal to its baseOffset z, with no half height added.
C17_RootLiftedByHalfHeight ==
    FkComputed => VerticalAsStated({nodeId \in DOMAIN ik.world : KeepsOrigin(nodeId)})

\* a root of positive height off the world's axis, turned by a joint about its own
\* vertical, has been placed
C17_Witness ==
    /\ FkComputed
    /\ \E root \in {ik.scene.rootId} :
          /\ ik.scene.nodes[root].joints # <<>>
          /\ KeepsOrigin(root)
          /\ ik.heap[ik.scene.nodes[root].joints[1]].currentValue # 0
          /\ ik.scene.nodes[root].baseOffset[3] = 0
          /\ HalfHeight(root) > 0
          /\ ik.world[root].position[3] = HalfHeight(root)

\* C17 as stated: the same for every root and every node under an identity parent
C17_VerticalForEveryNode ==
    FkComputed => VerticalAsStated(DOMAIN ik.world)

\* ---------------------------------------------------------- geometry bounds
BoundsMeasured == ik.pc = "measured"

MeasuredGeometry == ik.scene.nodes[ik.nodeId].geometry

KindOf(geometry) == IF Has(geometry, "kind") THEN geometry.kind ELSE "undefined"

MeshKinds == {"box", "cylinder", "sphere", "cone", "capsule", "custom"}

\* C18: getGeometryBounds returns for a box its width, depth and height and radial =
\* max(width, depth) / 2; for a cylinder or cone width = depth = 2 radius, its height and
\* radial = radius; for a sphere width = depth = height = 2 radius and radial = radius;
\* for a capsule width = depth = 2 radius, height = length + 2 radius and radial =
\* radius; for a custom mesh each stored bound times the scale factor; for a missing or
\* unknown kind the box 0.3 x 0.3 x 0.3 with radial 0.15 (600 and 300 units), and a
\* result in every case.
C18_BoundsPerKind ==
    BoundsMeasured =>
        \E g \in {MeasuredGeometry}, b \in {ik.bounds} :
            /\ DOMAIN b = {"width", "depth", "height", "radial"}
            /\ KindOf(g) = "box" =>
                  /\ <<b.width, b.depth, b.height>> = <<g.width, g.depth, g.height>>
                  /\ b.radial = (IF g.width >= g.depth THEN g.width ELSE g.depth) \div 2
            /\ KindOf(g) \in {"cylinder", "cone"} =>
                  <<b.width, b.depth, b.height, b.radial>>
                      = <<2 * g.radius, 2 * g.radius, g.height, g.radius>>
            /\ KindOf(g) = "sphere" =>
                  <<b.width, b.depth, b.height, b.radial>>
                      = <<2 * g.radius, 2 * g.radius, 2 * g.radius, g.radius>>
            /\ KindOf(g) = "capsule" =>
                  <<b.width, b.depth, b.height, b.radial>>
                      = <<2 * g.radius, 2 * g.radius, g.length + 2 * g.radius, g.radius>>
            /\ KindOf(g) = "custom" =>
                  \A side \in DOMAIN b :
                      b[side] = RoundDiv(g.bounds[side] * g.scale, UnitScale)
            /\ KindOf(g) \notin MeshKinds =>
                  <<b.width, b.depth, b.height, b.radial>> = <<600, 600, 600, 300>>

\* the bounds of a custom mesh stored at two and a half times its size have been taken
C18_Witness ==
    /\ BoundsMeasured
    /\ KindOf(MeasuredGeometry) = "custom"
    /\ MeasuredGeometry.scale = 2500
    /\ ik.bounds.height = 2000

\* ------------------------------------------------------- remote joint values
\* the payload addresses the joint: it holds a number under the joint's name and, for
\* source 'tcp', the joint's externalControl flag is set
Addressed(joint, payload, source) ==
    /\ Has(payload, joint.name)
    /\ payload[joint.name].t = "num"
    /\ source = "manual" \/ joint.externalControl

\* value moved into [lo, hi]
Within(value, lo, hi) == IF value < lo THEN lo ELSE IF value > hi THEN hi ELSE value

\* C19: applyRemoteJointValues(values, 'tcp') sets every joint whose externalControl
\* flag is true and whose name has a numeric value in values to that value clamped
\* into the joint's limits, and leaves every other joint, and so every joint with
\* externalControl false, as it was; with source 'manual' the flag is not consulted
\* and every joint named in the payload with a numeric value is set likewise.
C19_RemoteValuesGated ==
    [][\A payload \in RemotePayloads, source \in RemoteSources :
          applyRemotePayload(payload, source)
          => /\ DOMAIN nodes' = DOMAIN nodes
             /\ \A k \in DOMAIN nodes :
                   /\ nodes'[k] = [nodes[k] EXCEPT !.joints = nodes'[k].joints]
                   /\ Len(nodes'[k].joints) = Len(nodes[k].joints)
                   /\ \A i \in 1..Len(nodes[k].joints) :
                         \E before \in {nodes[k].joints[i]} :
                            nodes'[k].joints[i] =
                               IF Addressed(before, payload, source)
                               THEN [before EXCEPT !.currentValue =
                                        Within(payload[before.name].v, before.limits[1],
                                               before.limits[2])]
                               ELSE before]_vars

\* a 'tcp' update has moved a joint under TCP control to its upper limit and logged it,
\* while a joint without TCP control rests at its initial value
C19_Witness ==
    /\ networkLog # <<>>
    /\ networkLog[Len(networkLog)].source = "tcp"
    /\ \E e \in AllJoints(nodes), f \in AllJoints(nodes) :
          /\ e.joint.externalControl
          /\ e.joint.currentValue = e.joint.limits[2]
          /\ Has(networkLog[Len(networkLog)].values, e.joint.name)
          /\ ~f.joint.externalControl
          /\ f.joint.currentValue \in {0, f.joint.limits[1]}
          /\ f.joint.currentValue # f.joint.limits[2]

\* ------------------------------------------------------------ link removal
\* id and the nodes below it, by children lists
SubtreeOf(ns, id) == {id} \cup DescendantsOf(ns, id, Cardinality(DOMAIN ns))

\* the nodes after removeLink(id) are the nodes before without the subtree of id, none
\* of them names a removed node, and all but the former parent are as they were
SubtreeRemoved(id) ==
    \E gone \in {SubtreeOf(nodes, id)} :
       /\ DOMAIN nodes' = (DOMAIN nodes) \ gone
       /\ \A k \in DOMAIN nodes' :
             /\ \A i \in 1..Len(nodes'[k].children) : nodes'[k].children[i] \notin gone
             /\ nodes'[k].parentId \notin gone
             /\ IF k = nodes[id].parentId
                THEN nodes'[k] = [nodes[k] EXCEPT !.children = SeqFilter(@, id)]
                ELSE nodes'[k] = nodes[k]

\* C20 (as stated): removeLink(id) for an existing id other than the root removes id
\* and every descendant of id, leaves no remaining node naming a removed id among its
\* children or as its parent, and changes no node outside the subtree but the former
\* parent's children list; removeLink(rootId) removes nothing; the root node exists in
\* every reachable state.
C20_RemoveLinkRemovesSubtree ==
    /\ [][\A id \in IdInputs :
            removeLink(id)
            => /\ id = rootId => nodes' = nodes
               /\ (id # rootId /\ Has(nodes, id)) => SubtreeRemoved(id)]_vars
    /\ [](Has(nodes, rootId))

\* ------------------------------------------------------------- network log
\* the ids of the log's entries, in order
LogIds == [i \in 1..Len(networkLog) |-> networkLog[i].id]

\* C21: the network log never holds more than 200 entries and its ids increase
\* strictly; each logNetworkEvent call leaves the log holding the new event last, after
\* the most recent of the entries it held before, in their order, min(n + 1, 200)
\* entries in all; clearNetworkLog empties it.
C21_LogKeepsLast200 ==
    /\ [](/\ Len(networkLog) <= 200
          /\ \A i \in 1..(Len(networkLog) - 1) : LogIds[i] < LogIds[i + 1])
    /\ [][/\ logNetworkEvent("outgoing", BroadcastValues, "manual")
             => \E n \in {Len(networkLog)}, kept \in {Len(networkLog')} :
                   /\ kept = (IF n + 1 < 200 THEN n + 1 ELSE 200)
                   /\ networkLog'[kept].id = networkEventCounter'
                   /\ networkLog'[kept].direction = "outgoing"
                   /\ networkLog'[kept].values = BroadcastValues
                   /\ \A i \in 1..(kept - 1) : networkLog'[i] = networkLog[n - (kept - 1) + i]
          /\ clearNetworkLog => networkLog' = <<>>]_vars

\* the log is full and its oldest entries have been dropped: it holds events 3 to 202
C21_Witness ==
    /\ Len(networkLog) = 200
    /\ networkLog[1].id = 3
    /\ networkLog[200].id = 202

\* ------------------------------------------------------- dangling references
\* the nodes that exist and are reached from rootId through children lists
ReachableNodes(scene) ==
    ({scene.rootId} \cup DescendantsOf(scene.nodes, scene.rootId, Cardinality(DOMAIN scene.nodes)))
        \cap DOMAIN scene.nodes

\* the scene with every child id that names no node taken off the children lists
WithoutDangling(scene) ==
    [scene EXCEPT !.nodes =
        [k \in DOMAIN scene.nodes |->
            [scene.nodes[k] EXCEPT !.children =
                SelectSeq(@, LAMBDA child : Has(scene.nodes, child))]]]

\* a children list of the scene names an id without a node
HasDanglingChild(scene) ==
    \E k \in DOMAIN scene.nodes :
        \E i \in 1..Len(scene.nodes[k].children) : ~Has(scene.nodes, scene.nodes[k].children[i])

\* C22: computeKinematics raises nothing on scenes with dangling references and
\* returns a result: it has an entry for exactly the nodes that exist and are reached
\* from rootId through children lists, the entries are those of the scene without the
\* dangling child ids, and a rootId without a node gives the empty result.
C22_DanglingReferencesSkipped ==
    /\ ik.pc # "typeError"
    /\ FkComputed =>
          /\ DOMAIN ik.world = ReachableNodes(ik.scene)
          /\ ik.world = computeKinematics(Deref(WithoutDangling(ik.scene), ik.heap))
          /\ ~Has(ik.scene.nodes, ik.scene.rootId) => ik.world = <<>>

\* a scene whose root lists a missing child before its two children, and whose tool
\* lists another, has been walked: root, arm, side and tool are reported, the unlisted
\* link is not
C22_Witness ==
    /\ FkComputed
    /\ HasDanglingChild(ik.scene)
    /\ Has(ik.scene.nodes, ik.scene.rootId)
    /\ ik.scene.nodes[ik.scene.rootId].children[1] = GhostId
    /\ ik.scene.nodes[Str("tool", 0)].children = <<GhostId>>
    /\ DOMAIN ik.world = {Str("base", 0), Str("arm", 0), Str("side", 0), Str("tool", 0)}
    /\ Has(ik.scene.nodes, Str("spare", 0))

\* ---------------------------------------------------------- renaming a joint
\* the names of the joints other than the joint at index on nodeId
OtherNames(nodeId, index) ==
    {e.joint.name : e \in {x \in AllJoints(nodes) : ~(x.key = nodeId /\ x.index = index)}}

\* the lowest-numbered name joint-N outside names
LowestFree(names) ==
    Str("joint", CHOOSE n \in 1..(Cardinality(names) + 1) :
                    /\ Str("joint", n) \notin names
                    /\ \A m \in 1..(n - 1) : Str("joint", m) \in names)

\* no two joints of the scene carry the same id
JointIdsUnique ==
    \A e1, e2 \in AllJoints(nodes) : e1 # e2 => e1.joint.id # e2.joint.id

\* updateJoint(nodeId, jointId, patch) on an existing joint names it as the sentence
\* says and applies the patch's limits and value
RenamedAsStated(nodeId, jointId, patch) ==
    \E index \in {findJointIndex(nodes[nodeId].joints, jointId)} :
       \E before \in {nodes[nodeId].joints[index]}, after \in {nodes'[nodeId].joints[index]},
          others \in {OtherNames(nodeId, index)}, trimmed \in {Trim(patch.name)} :
          /\ trimmed = EmptyStr => after.name = before.name
          /\ trimmed \in others => after.name = LowestFree(others) /\ after.name \notin others
          /\ (trimmed # EmptyStr /\ trimmed \notin others) => after.name = trimmed
          /\ Has(patch, "limits")
                => /\ after.limits = <<patch.limits[2], patch.limits[1]>>
                   /\ after.currentValue = Within(patch.currentValue, after.limits[1],
                                                  after.limits[2])
          /\ after.id = before.id

\* C23 (as stated): updateJoint with a proposed name that, trimmed, is the name of
\* another joint of the scene stores neither a refusal nor the duplicate: the joint gets
\* the lowest-numbered joint-N no other joint uses, and the patch's limits and value are
\* applied all the same; a blank proposed name leaves the joint's name as it was.
C23_DuplicateNameRegenerated ==
    [][\A j \in JointInputs, patch \in NamePatches :
          (updateJoint(j[1], j[2], patch) /\ Found(j[1], j[2]))
          => RenamedAsStated(j[1], j[2], patch)]_vars

\* ------------------------------------------------------ the order of a sweep
\* the place of nodeId on the path, root first
PathPlace(nodeId) == CHOOSE i \in 1..Len(ik.path) : ik.path[i] = nodeId

\* the chain lists the path's joints root first, each node's joints as the node lists
\* them, and no joint twice
ChainInPathOrder ==
    \A a, b \in 1..Len(ik.jointChain) :
       a < b => \/ PathPlace(ik.jointChain[a].nodeId) < PathPlace(ik.jointChain[b].nodeId)
                \/ /\ ik.jointChain[a].nodeId = ik.jointChain[b].nodeId
                   /\ ik.jointChain[a].index < ik.jointChain[b].index

\* the joint object the chain's entry at jointIndex names in the working scene
VisitedAddress == 
    ik.workingScene.nodes[ik.jointChain[ik.jointIndex].nodeId]
        .joints[ik.jointChain[ik.jointIndex].index]

\* the value lines 216-267 give the visited joint from the working scene as it stands
CorrectionFromWorkingScene ==
    \E worldState \in {computeKinematics(Deref(ik.workingScene, ik.heap))},
       ref \in {ik.jointChain[ik.jointIndex]} :
       ik'.heap[VisitedAddress].currentValue
          = nextJointValue(ik.heap[VisitedAddress], worldState[ref.nodeId].joints[ref.index],
                           worldState[ik.targetNodeId].position, ik.target)

\* C24: a sweep visits the chain's joints in strict reverse chain order, the target
\* node's last listed joint first and the root's first joint last, each joint once; a
\* visit writes no joint but its own, and computes its value from the working scene as
\* the earlier visits of the sweep left it.
C24_SweepInReverseChainOrder ==
    /\ [](ik.pc \in {"joint", "check", "return"} => ChainInPathOrder)
    /\ [][/\ (ik.pc # "joint" /\ ik'.pc = "joint") => ik'.jointIndex = Len(ik'.jointChain)
          /\ ik.pc = "joint"
               => /\ ik.jointIndex \in 1..Len(ik.jointChain)
                  /\ ik'.jointIndex = ik.jointIndex - 1
                  /\ ik'.pc = (IF ik.jointIndex = 1 THEN "check" ELSE "joint")
                  /\ \A a \in 1..Len(ik.heap) : a # VisitedAddress => ik'.heap[a] = ik.heap[a]
                  /\ CorrectionFromWorkingScene]_vars

\* a sweep on the arm with two joints has visited the slide, which wrote a value, and
\* is at the shoulder listed before it
C24_Witness ==
    /\ ik.pc = "joint"
    /\ Len(ik.jointChain) = 2
    /\ ik.jointIndex = 1
    /\ ik.jointChain[1].nodeId = ik.jointChain[2].nodeId
    /\ ik.updated

\* ------------------------------------------------------ the end of a sweep
\* the effector of the working scene as it stands is within tolerance of the target
EffectorWithinTolerance ==
    withinTolerance(computeKinematics(Deref(ik.workingScene, ik.heap)),
                    ik.targetNodeId, ik.target, ik.tolerance)

\* C25: a sweep starts only as sweep number iteration + 1 <= maxIterations; a sweep
\* after the first starts only when the sweep before it changed a joint value and left
\* the effector farther than tolerance from the target; a sweep that changed no joint
\* ends the solve, with success exactly when the effector is within tolerance.
C25_SweepsContinueOnlyOnProgress ==
    [][/\ (ik.pc # "joint" /\ ik'.pc = "joint")
            => /\ ik'.iteration < ik'.maxIterations
               /\ ik.pc = "idle" => ik'.iteration = 0
               /\ ik.pc = "check" => /\ ik'.iteration = ik.iteration + 1
                                     /\ ik.updated
                                     /\ ~EffectorWithinTolerance
       /\ (ik.pc = "check" /\ ~ik.updated)
            => /\ ik'.pc = "return"
               /\ ik'.success = EffectorWithinTolerance
       /\ ik.pc = "return" => ik'.result.success = ik.success]_vars

\* a second sweep has changed no joint and stands at its check, the effector away
\* from the target
C25_Witness ==
    /\ ik.pc = "check"
    /\ ik.iteration >= 1
    /\ ~ik.updated
    /\ ~EffectorWithinTolerance

\* ------------------------------------------------------ the update threshold
\* a visit has been made
Visited == ik.pc = "visited"

\* the clamped new value of the visit
ClampedNewValue ==
    kinematicsClamp(ik.before + correctionOf(ik.type, ik.raw), ik.limits[1], ik.limits[2])

\* |clamped new value - current value|
NetChange == MathAbs(ClampedNewValue - ik.before)

\* the visit wrote the clamped new value and set updated
Applied == ik.after.updated /\ ik.after.currentValue = ClampedNewValue

\* the visit left the joint as it was and did not set updated
Skipped == ~ik.after.updated /\ ik.after.currentValue = ik.before

\* the raw correction is at least 1e-4 radians, or 1e-5 metres
RawAboveThreshold ==
    MathAbs(ik.raw) >= (IF ik.type = "rotational" THEN MinAngle ELSE MinDelta)

\* C26 (amended): a visit past the degenerate-geometry skip applies its correction
\* exactly when the raw correction is at least 1e-4 radians (rotational) or 1e-5 metres
\* (linear) and the clamped new value differs from the current value by at least 0.001
\* of the joint's unit; otherwise the joint keeps its value and updated is not set.
C26_AppliedAboveBothThresholds ==
    Visited =>
        IF RawAboveThreshold /\ NetChange >= MinChange
        THEN Applied ELSE Skipped

\* a visit with a raw correction of 50 millionths of a radian, 0.0029 degrees, was
\* skipped
C26_Witness ==
    /\ Visited
    /\ ik.type = "rotational"
    /\ ik.raw = 50
    /\ NetChange >= MinChange
    /\ Skipped

\* C26 (as stated): the correction is applied whenever the clamped new value differs
\* from the current value by at least 0.001 of the joint's unit, and skipped only when
\* that net change is below 0.001.
C26_AppliedAboveNetChange ==
    Visited => IF NetChange >= MinChange THEN Applied ELSE Skipped

\* ------------------------------------------------------ writes within limits
\* limits[0] <= currentValue <= limits[1]
JointWithinLimits(joint) ==
    joint.limits[1] <= joint.currentValue /\ joint.currentValue <= joint.limits[2]

\* every joint of every node of the scene is within its limits
SceneWithinLimits(scene, heap) ==
    \A k \in DOMAIN scene.nodes : \A i \in 1..Len(scene.nodes[k].joints) :
        JointWithinLimits(heap[scene.nodes[k].joints[i]])

\* every joint of the chain is within its limits
ChainWithinLimits(scene, heap) ==
    \A e \in 1..Len(ik.jointChain) :
        JointWithinLimits(heap[scene.nodes[ik.jointChain[e].nodeId]
                                    .joints[ik.jointChain[e].index]])

\* the call is in its loop or past it
IkLooping ==
    \/ ik.pc \in {"joint", "check", "return"}
    \/ ik.pc = "done" /\ Len(ik.jointChain) > 0

\* C27: a visit that changes a joint's value leaves it within that joint's limits; and
\* from an input scene whose chain joints are within their limits, the chain joints of
\* the working scene are within their limits at every point of the loop and in the
\* returned scene, as are all joints when all joints of the input were.
C27_WritesWithinLimits ==
    /\ [][(ik.pc = "joint" /\ ik'.heap[VisitedAddress] # ik.heap[VisitedAddress])
            => /\ JointWithinLimits(ik'.heap[VisitedAddress])
               /\ ik'.heap[VisitedAddress].limits = ik.heap[VisitedAddress].limits]_vars
    /\ [](IkLooping =>
            /\ ChainWithinLimits(ik.scene, ik.input)
                  => ChainWithinLimits(ik.workingScene, ik.heap)
            /\ SceneWithinLimits(ik.scene, ik.input)
                  => SceneWithinLimits(ik.workingScene, ik.heap))
    /\ []((IkDone /\ Len(ik.jointChain) > 0 /\ SceneWithinLimits(ik.scene, ik.input))
            => SceneWithinLimits(ik.result.scene, ik.heap))

\* a solve has failed with a chain joint written to its upper limit
C27_Witness ==
    /\ IkDone
    /\ Len(ik.jointChain) > 0
    /\ ~ik.result.success
    /\ SceneWithinLimits(ik.scene, ik.input)
    /\ \E e \in 1..Len(ik.jointChain) :
          LET address == ik.result.scene.nodes[ik.jointChain[e].nodeId]
                             .joints[ik.jointChain[e].index]
          IN /\ ik.heap[address].currentValue = ik.heap[address].limits[2]
             /\ ik.input[ik.scene.nodes[ik.jointChain[e].nodeId].joints[ik.jointChain[e].index]]
                   .currentValue # ik.heap[address].currentValue

\* ------------------------------------------------------ a joint moves its subtree only
\* the joints of the nodes reported: <<node id, index on the node>>
ReportedJoints ==
    {e \in {<<id, i>> : id \in DOMAIN ik.scene.nodes, i \in 1..MaxJoints} :
        Has(ik.world, e[1]) /\ e[2] <= Len(ik.scene.nodes[e[1]].joints)}

\* the world state computeKinematics returns when joint e stands at value
WorldAtValue(e, value) ==
    computeKinematics(Deref(ik.scene,
        [ik.heap EXCEPT ![ik.scene.nodes[e[1]].joints[e[2]]].currentValue = value]))

\* node n and the nodes below it through children lists
SubtreeNodes(n) ==
    {n} \cup DescendantsOf(ik.scene.nodes, n, Cardinality(DOMAIN ik.scene.nodes))

\* moved differs from the reported world state only where a change of joint e may show
ChangedWithinSubtree(e, moved) ==
    /\ DOMAIN moved = DOMAIN ik.world
    /\ \A m \in DOMAIN ik.world \ SubtreeNodes(e[1]) : moved[m] = ik.world[m]
    /\ \A i \in 1..e[2] :
          /\ moved[e[1]].joints[i].pivot = ik.world[e[1]].joints[i].pivot
          /\ moved[e[1]].joints[i].axis = ik.world[e[1]].joints[i].axis

\* C28: with joint j of node n at any other value within its limits, computeKinematics
\* reports the same nodes, the same world transform, world origin, joint pivots and
\* joint axes for every node outside n's subtree, and the same world pivot and axis for
\* the joints of n up to and including j.
C28_JointMovesOwnSubtreeOnly ==
    FkComputed =>
        \A e \in ReportedJoints :
            \A value \in SampledValues(ik.heap[ik.scene.nodes[e[1]].joints[e[2]]]) :
                \E moved \in {WorldAtValue(e, value)} : ChangedWithinSubtree(e, moved)

\* the branched scene: turning the arm's joint moves the arm's origin and the tool
\* below it, and the side link, which has a joint of its own, is outside the arm's
\* subtree
C28_Witness ==
    /\ FkComputed
    /\ \A id \in {Str("arm", 0), Str("side", 0), Str("tool", 0)} :
          Has(ik.world, id) /\ Len(ik.scene.nodes[id].joints) = 1
    /\ Str("side", 0) \notin SubtreeNodes(Str("arm", 0))
    /\ \E moved \in {WorldAtValue(<<Str("arm", 0), 1>>, 45)} :
          /\ moved[Str("arm", 0)].position # ik.world[Str("arm", 0)].position
          /\ moved[Str("tool", 0)].joints[1].pivot # ik.world[Str("tool", 0)].joints[1].pivot
          /\ moved[Str("side", 0)] = ik.world[Str("side", 0)]

\* ------------------------------------------------------ a target id without a node
\* C29: a call for a target id that names no node of the scene raises no error and is
\* over at once: success = false, the scene returned is the caller's, and the snapshot
\* holds the input scene's joint values.
C29_MissingTargetReturnsInput ==
    ik.pc # "idle" =>
        /\ IkDone
        /\ ik.result.success = FALSE
        /\ ik.result.scene = ik.scene
        /\ ik.heap = ik.input
        /\ ik.result.jointValues = collectJointValues(ik.scene, ik.input)

\* ------------------------------------------------------ solve and commit
\* the store has taken the result of a solve
Committed == ik.pc = "loaded" /\ Has(ik, "returned")

\* C30: solveForTarget reads the store's scene once, solves on it with the store
\* untouched, and then stores the solver's returned scene, whether or not the solve
\* succeeded; the joint values it returns are those of the scene stored; the next solve
\* starts from the scene stored; without a scene it returns null and stores nothing.
C30_SolveCommitsResult ==
    [][/\ (ik.pc = "done" /\ ik'.pc = "loaded")
            => /\ Deref(ik'.scene, ik'.heap) = Deref(ik.result.scene, ik.heap)
               /\ ik'.returned.success = ik.result.success
               /\ ik'.returned.jointValues = collectJointValues(ik'.scene, ik'.heap)
       /\ (ik.pc \in {"joint", "check", "return"} /\ ik'.pc # "rangeError")
            => ik'.scene = ik.scene /\ ik'.input = ik.input
       /\ (ik.pc = "loaded" /\ ik'.pc = "gatherPath")
            => ik'.scene = ik.scene /\ ik'.heap = ik.heap
       /\ ik.pc \in {"idle", "rejected"}
            => \/ ik'.pc \in {"loaded", "rejected"} /\ ~Has(ik', "returned")
               \/ ik' = [pc |-> ik.pc, returned |-> Null]]_vars

\* a solve that did not succeed has been committed with a joint away from the value it
\* was loaded with, and the value returned for it is the stored one
C30_Witness ==
    /\ Committed
    /\ ~ik.returned.success
    /\ \E a \in 1..Len(ik.heap) :
          /\ ik.heap[a].currentValue # 0
          /\ ik.heap[a].name = Str("shoulder", 0)
          /\ ik.returned.jointValues[ik.heap[a].name] = ik.heap[a].currentValue

\* ------------------------------------------------------ a target already reached
\* on entry the chain has a joint and the target node's world origin, in the input
\* scene, is within tolerance of the target point
WithinToleranceOnEntry ==
    /\ ik.pc \in {"joint", "check", "return", "done"}
    /\ Len(ik.jointChain) > 0
    /\ withinTolerance(computeKinematics(Deref(ik.scene, ik.input)),
                       ik.targetNodeId, ik.target, ik.tolerance)

\* the joints of the working scene hold the values of the input scene
ValuesAsOnEntry ==
    \A k \in DOMAIN ik.scene.nodes : \A i \in 1..Len(ik.scene.nodes[k].joints) :
        ik.heap[ik.workingScene.nodes[k].joints[i]].currentValue
           = ik.input[ik.scene.nodes[k].joints[i]].currentValue

\* C32 (amended): a call with maxIterations >= 1 that starts with the target node's
\* origin within tolerance of the target point returns success = true from the check
\* of its first sweep, also when that sweep changed no joint; the sweep applies its
\* corrections all the same.
C32_ReachedTargetSucceedsAtFirstCheck ==
    (WithinToleranceOnEntry /\ ik.maxIterations >= 1)
    => /\ ik.iteration = 0
       /\ IkDone => ik.result.success = TRUE

\* a call that started within tolerance has returned success after one sweep that
\* changed no joint
C32_Witness ==
    /\ IkDone
    /\ WithinToleranceOnEntry
    /\ ik.maxIterations >= 1
    /\ ~ik.updated
    /\ ValuesAsOnEntry
    /\ ik.result.success

\* C32 (as stated): such a call returns success = true after a single sweep with every
\* joint value as it was on entry.
C32_ReachedTargetKeepsValues ==
    (IkDone /\ WithinToleranceOnEntry /\ ik.maxIterations >= 1)
    => /\ ik.result.success = TRUE
       /\ ik.iteration = 0
       /\ ValuesAsOnEntry

\* ------------------------------------------------------ the joint snapshot
\* the joint objects of the returned scene
ReturnedJoints ==
    UNION {{ik.heap[ik.result.scene.nodes[k].joints[i]] :
               i \in 1..Len(ik.result.scene.nodes[k].joints)} :
           k \in DOMAIN ik.result.scene.nodes}

\* C33: the jointValues a call returns have, for every joint of every node of the
\* returned scene, an entry under the joint's name that holds the joint's currentValue
\* in that scene, and no entry besides.
C33_SnapshotHasEveryJoint ==
    (IkDone /\ Has(ik.result, "jointValues")) =>
        /\ DOMAIN ik.result.jointValues = {joint.name : joint \in ReturnedJoints}
        /\ \A joint \in ReturnedJoints :
              ik.result.jointValues[joint.name] = joint.currentValue

\* ------------------------------------------ builder TCP server (electron/main.js)
\* The bytes a client sends are written one string per byte: the ASCII characters
\* "k", "=", "1", " ", "{", "}", the newline "\n", and the two bytes "c3" "a9"
\* that encode U+00E9.  Decoded text is a sequence of characters: the ASCII ones,
\* "U+00E9", and the replacement character "U+FFFD".
Newline == "\n"

\* Buffer.prototype.toString(): UTF-8 decoding of one Buffer on its own; a lead
\* byte without its continuation, and a continuation without its lead, each
\* decode to U+FFFD
RECURSIVE bufferToString(_)
bufferToString(data) ==
    IF data = <<>> THEN <<>>
    ELSE IF Head(data) = "c3" /\ Len(data) >= 2 /\ data[2] = "a9"
         THEN <<"U+00E9">> \o bufferToString(SubSeq(data, 3, Len(data)))
    ELSE IF Head(data) \in {"c3", "a9"}
         THEN <<"U+FFFD">> \o bufferToString(Tail(data))
    ELSE <<Head(data)>> \o bufferToString(Tail(data))

\* String.prototype.indexOf for one character: 0 stands for -1
indexOf(text, char) ==
    IF \E i \in 1..Len(text) : text[i] = char
    THEN CHOOSE i \in 1..Len(text) : text[i] = char /\ \A j \in 1..(i - 1) : text[j] # char
    ELSE 0

\* String.prototype.trim
RECURSIVE trim(_)
trim(text) ==
    IF text = <<>> THEN <<>>
    ELSE IF Head(text) \in {" ", Newline} THEN trim(Tail(text))
    ELSE IF text[Len(text)] \in {" ", Newline} THEN trim(SubSeq(text, 1, Len(text) - 1))
    ELSE text

\* Number(text) for a trimmed text of this alphabet: digits give their value, the
\* empty text gives 0, anything else NaN
RECURSIVE digitsValue(_)
digitsValue(text) ==
    IF text = <<>> THEN 0 ELSE 10 * digitsValue(SubSeq(text, 1, Len(text) - 1)) + 1

toNumber(text) ==
    IF \A i \in 1..Len(text) : text[i] = "1" THEN digitsValue(text) ELSE NaN

\* what JSON.parse(trimmed) gives on this alphabet: a number for digits, the empty
\* object for braces around blanks, and a SyntaxError for everything else
jsonKind(trimmed) ==
    IF trimmed # <<>> /\ \A i \in 1..Len(trimmed) : trimmed[i] = "1" THEN "number"
    ELSE IF /\ Len(trimmed) >= 2
            /\ Head(trimmed) = "{"
            /\ trimmed[Len(trimmed)] = "}"
            /\ \A i \in 2..(Len(trimmed) - 1) : trimmed[i] = " "
         THEN "object"
    ELSE "SyntaxError"

\* pair.split(/[:=]/): the first two pieces of the pair; rawValue is <<"undefined">>
\* when the pair holds no separator
splitPair(pair) ==
    LET first == indexOf(pair, "=")
        rest  == SubSeq(pair, first + 1, Len(pair))
        next  == indexOf(rest, "=")
    IN  IF first = 0 THEN [rawKey |-> pair, rawValue |-> <<"undefined">>]
        ELSE [rawKey   |-> SubSeq(pair, 1, first - 1),
              rawValue |-> IF next = 0 THEN rest ELSE SubSeq(rest, 1, next - 1)]

\* parseMessage: the payloads to forward for one message, <<>> standing for null.
\* A payload is the sequence of its <<key, value>> entries.
parseMessage(message) ==
    LET trimmed == trim(message)
        split   == splitPair(trimmed)
        value   == toNumber(trim(split.rawValue))
    IN  IF trimmed = <<>> THEN <<>>
        ELSE IF jsonKind(trimmed) = "number" THEN <<>>
        ELSE IF jsonKind(trimmed) = "object" THEN << <<>> >>
        ELSE IF split.rawKey = <<>> \/ split.rawValue = <<"undefined">> THEN <<>>
        ELSE IF value = NaN THEN <<>>
        ELSE << <<  <<trim(split.rawKey), value>>  >> >>

\* the while loop of the 'data' handler: every complete line leaves the buffer and
\* its payload, if any, is sent to the renderer
RECURSIVE drainLines(_, _)
drainLines(buffer, sent) ==
    LET newlineIndex == indexOf(buffer, Newline)
    IN  IF newlineIndex = 0 THEN [buffer |-> buffer, sent |-> sent]
        ELSE drainLines(SubSeq(buffer, newlineIndex + 1, Len(buffer)),
                        sent \o parseMessage(SubSeq(buffer, 1, newlineIndex - 1)))

\* the largest Buffer one 'data' event delivers
MaxChunk == 3

\* socket.on('data'): the next bytes of the stream arrive as one Buffer
socketData(size) ==
    /\ ik.pc = "open"
    /\ size <= Len(ik.stream)
    /\ \E data \in {SubSeq(ik.stream, 1, size)} :
       \E drained \in {drainLines(ik.buffer \o bufferToString(data), ik.sent)} :
          ik' = [ik EXCEPT !.stream = SubSeq(ik.stream, size + 1, Len(ik.stream)),
                           !.received = ik.received \o data,
                           !.buffer = drained.buffer,
                           !.sent = drained.sent]
    /\ UNCHANGED storeVars

\* socket.on('end'): the peer has sent everything; the rest of the buffer is one
\* more message
socketEnd ==
    /\ ik.pc = "open"
    /\ ik.stream = <<>>
    /\ ik' = [ik EXCEPT !.pc = "ended",
                        !.ended = TRUE,
                        !.buffer = <<>>,
                        !.sent = IF ik.buffer # <<>> THEN ik.sent \o parseMessage(ik.buffer)
                                 ELSE ik.sent]
    /\ UNCHANGED storeVars

\* socket.on('close'): the socket leaves tcpClients
socketClose ==
    /\ ik.pc \in {"ended", "failed"}
    /\ ik' = [ik EXCEPT !.pc = "closed"]
    /\ UNCHANGED storeVars

\* socket.on('error'): the socket leaves tcpClients; no further data arrives
socketError ==
    /\ ik.pc = "open"
    /\ ik' = [ik EXCEPT !.pc = "failed"]
    /\ UNCHANGED storeVars

\* the lines clients send in the streams explored
MessageLines ==
    { <<"k", "=", "1">>, <<"c3", "a9", "=", "1">>, <<"1", "1">>, <<"{", "}">>, <<"k">>,
      <<"=", "1">>, <<" ", "k", "=", "1", " ">>, <<>> }

\* two lines, the second with or without its newline
ClientStreams ==
    { first \o <<Newline>> \o second \o ending :
        first \in MessageLines, second \in MessageLines, ending \in {<<>>, <<Newline>>} }

InitServer ==
    /\ InitStore
    /\ ik \in {[pc |-> "open", stream |-> stream, received |-> <<>>, buffer |-> <<>>,
                sent |-> <<>>, ended |-> FALSE] : stream \in ClientStreams}

NextServer ==
    \/ \E size \in 1..MaxChunk : socketData(size)
    \/ socketEnd
    \/ socketClose
    \/ socketError

SpecServer == InitServer /\ [][NextServer]_vars

\* the messages of a text: its newline-terminated lines, and last the fragment
\* after the final newline
RECURSIVE linesOf(_)
linesOf(text) ==
    LET newlineIndex == indexOf(text, Newline)
    IN  IF newlineIndex = 0 THEN <<text>>
        ELSE <<SubSeq(text, 1, newlineIndex - 1)>>
             \o linesOf(SubSeq(text, newlineIndex + 1, Len(text)))

RECURSIVE payloadsOf(_)
payloadsOf(lines) ==
    IF lines = <<>> THEN <<>> ELSE parseMessage(Head(lines)) \o payloadsOf(Tail(lines))

\* the payloads of the bytes received so far, decoded as one stream: those of the
\* complete lines, and that of a non-empty trailing fragment once the socket ended
streamPayloads(received, ended) ==
    LET lines    == linesOf(bufferToString(received))
        complete == SubSeq(lines, 1, Len(lines) - 1)
        fragment == lines[Len(lines)]
    IN  payloadsOf(IF ended /\ fragment # <<>> THEN lines ELSE complete)

\* C31: for a client socket the payloads sent to the renderer are those of the
\* parseable newline-terminated lines of the bytes received, in stream order, however
\* the bytes were split into data events, and the trailing fragment is sent once
\* when the socket ends.
C31_ForwardedAreStreamLines ==
    ik.sent = streamPayloads(ik.received, ik.ended)

\* ------------------------------------------------------- store: pose library
\* the joints of a scene in the order of Object.values(nodes) and of each joints array
RECURSIVE jointsInOrder(_, _)
jointsInOrder(ns, order) ==
    IF order = <<>> THEN <<>>
    ELSE (IF Has(ns, Head(order)) THEN ns[Head(order)].joints ELSE <<>>)
         \o jointsInOrder(ns, Tail(order))

\* the loop of addPose: values[joint.name] = joint.currentValue for each joint in
\* turn, a later joint of the same name replacing the earlier value
capturedValues(ns, order) ==
    LET joints == jointsInOrder(ns, order)
        latest(name) == CHOOSE i \in 1..Len(joints) :
                           /\ joints[i].name = name
                           /\ \A k \in (i + 1)..Len(joints) : joints[k].name # name
    IN [name \in {joints[i].name : i \in 1..Len(joints)} |->
           joints[latest(name)].currentValue]

\* poses.findIndex((pose) => pose.id === id); 0 stands for -1
findPoseIndex(ps, id) ==
    IF \E i \in 1..Len(ps) : ps[i].id = id
    THEN CHOOSE i \in 1..Len(ps) : ps[i].id = id /\ \A k \in 1..(i - 1) : ps[k].id # id
    ELSE 0

\* the name of addPose stored as the caller gave it
addPoseNameAsGiven(ps, name) ==
    LET trimmed == [name EXCEPT !.pad = FALSE]
    IN IF trimmed = EmptyPoseName THEN getNextPoseName(ps) ELSE trimmed

\* the name addPose stores
addPoseName(ps, name) ==
    LET trimmed == [name EXCEPT !.pad = FALSE]
        usedNames == {ps[i].name : i \in 1..Len(ps)}
    IN IF trimmed = EmptyPoseName THEN getNextPoseName(ps)
       ELSE IF trimmed \in usedNames THEN dedupePoseName(usedNames, trimmed, 2)
       ELSE trimmed

\* addPose(name); no name is the empty name
addPose(name) ==
    LET poseId == createId("pose", idCounter + 1)
        pose == [id |-> poseId, name |-> addPoseName(poses, name),
                 values |-> capturedValues(nodes, nodeOrder)]
    IN
    /\ idCounter' = idCounter + 1
    /\ poses' = Append(poses, pose)
    /\ last' = [op |-> "addPose"]
    /\ UNCHANGED <<nodes, nodeOrder, rootId, selectedId, connectMode, connectSourceId,
                   networkLog, simulationPlaying, simulationTime, networkEventCounter>>

\* renamePose(id, name)
renamePose(id, name) ==
    LET index == findPoseIndex(poses, id)
        trimmed == [name EXCEPT !.pad = FALSE]
    IN
    /\ last' = [op |-> "renamePose"]
    /\ IF index = 0 THEN UNCHANGED poses
       ELSE IF trimmed = EmptyPoseName THEN UNCHANGED poses
       ELSE IF \E idx \in 1..Len(poses) : idx # index /\ poses[idx].name = trimmed
       THEN UNCHANGED poses
       ELSE poses' = [poses EXCEPT ![index].name = trimmed]
    /\ UNCHANGED <<nodes, nodeOrder, rootId, selectedId, connectMode, connectSourceId,
                   networkLog, simulationPlaying, simulationTime, idCounter,
                   networkEventCounter>>

\* poses.filter((pose) => pose.id !== id)
RECURSIVE posesWithoutId(_, _)
posesWithoutId(ps, id) ==
    IF ps = <<>> THEN <<>>
    ELSE IF Head(ps).id = id THEN posesWithoutId(Tail(ps), id)
    ELSE <<Head(ps)>> \o posesWithoutId(Tail(ps), id)

\* removePose(id)
removePose(id) ==
    /\ last' = OtherOp
    /\ poses' = posesWithoutId(poses, id)
    /\ UNCHANGED <<nodes, nodeOrder, rootId, selectedId, connectMode, connectSourceId,
                   networkLog, simulationPlaying, simulationTime, idCounter,
                   networkEventCounter>>

\* poses.splice(index, 1) and poses.splice(index, 0, moved), indices from 1
spliceOut(ps, index) == SubSeq(ps, 1, index - 1) \o SubSeq(ps, index + 1, Len(ps))

spliceIn(ps, index, moved) == SubSeq(ps, 1, index - 1) \o <<moved>> \o SubSeq(ps, index, Len(ps))

\* reorderPoses(sourceId, targetId)
reorderPoses(sourceId, targetId) ==
    LET fromIndex == findPoseIndex(poses, sourceId)
        rest == spliceOut(poses, fromIndex)
        targetIndex == findPoseIndex(rest, targetId)
    IN
    /\ last' = OtherOp
    /\ IF ~Truthy(sourceId) \/ sourceId = targetId \/ fromIndex = 0 THEN UNCHANGED poses
       ELSE IF targetId = Undefined \/ targetIndex = 0
       THEN poses' = Append(rest, poses[fromIndex])
       ELSE poses' = spliceIn(rest, targetIndex, poses[fromIndex])
    /\ UNCHANGED <<nodes, nodeOrder, rootId, selectedId, connectMode, connectSourceId,
                   networkLog, simulationPlaying, simulationTime, idCounter,
                   networkEventCounter>>

\* resetScene(): createDefaultState() draws the id of the new root link
resetScene ==
    LET newRootId == createId("link", idCounter + 1) IN
    /\ last' = OtherOp
    /\ idCounter' = idCounter + 1
    /\ nodes' = [k \in {newRootId} |-> [DefaultRootNode EXCEPT !.id = newRootId]]
    /\ nodeOrder' = <<newRootId>>
    /\ rootId' = newRootId
    /\ selectedId' = newRootId
    /\ connectMode' = FALSE
    /\ connectSourceId' = Undefined
    /\ networkLog' = <<>>
    /\ poses' = <<>>
    /\ simulationPlaying' = FALSE
    /\ simulationTime' = 0
    /\ UNCHANGED networkEventCounter

\* names a caller gives a pose: none, a new name within white space, and one that
\* differs from a generated name in case only
PoseNameInputs ==
    {EmptyPoseName, [PoseName("Home", 0) EXCEPT !.pad = TRUE], PoseName("pose", 1)}

\* the pose ids a caller passes: every id in use, and one that names nothing
PoseIdInputs == {poses[i].id : i \in 1..Len(poses)} \cup {GhostId}

\* imported files: two joints with one id and poses of one name, one of them holding
\* a value for a joint the file lacks; a joint and a pose without ids beside ones
\* whose ids end in the next numbers of the counter
PoseScenes ==
    {[rootId |-> Str("base", 0),
      nodes |-> <<[key |-> Str("base", 0),
                   node |-> [id |-> Str("base", 0),
                             joints |-> <<[id |-> Str("j", 0), name |-> Str("arm", 0)],
                                          [id |-> Str("j", 0), name |-> Str("wrist", 0)]>>]]>>,
      poses |-> <<[id |-> Str("home", 0), name |-> PoseName("Home", 0),
                   values |-> [n \in {Str("arm", 0), Str("wrist", 0), Str("ghost", 0)} |->
                                  Num(10)]],
                  [id |-> Str("rest", 0), name |-> [PoseName("Home", 0) EXCEPT !.pad = TRUE]]>>],
     [rootId |-> Str("base", 0),
      nodes |-> <<[key |-> Str("base", 0),
                   node |-> [id |-> Str("base", 0),
                             joints |-> <<[name |-> Str("arm", 0)],
                                          [id |-> Str("joint", 2), name |-> Str("wrist", 0)]>>]]>>,
      poses |-> <<[name |-> PoseName("Pose", 2)],
                  [id |-> Str("pose", 3)]>>]}

\* the most ids drawn, and the most poses kept, in the sessions explored
MaxPoseIds == 3

MaxPoses == 2

\* the createId calls importScene makes for the poses of a file
MissingPoseIds(scene) ==
    IF Has(scene, "poses")
    THEN Cardinality({i \in 1..Len(scene.poses) : ~StringField(scene.poses[i], "id")})
    ELSE 0

\* the builder store under the pose library and the operations that add, rename and
\* remove joints
NextPoses ==
    \/ \E kind \in {"box"} :
          /\ idCounter + 2 <= MaxPoseIds
          /\ Cardinality(AllJoints(nodes)) < MaxJoints
          /\ addLink(kind)
          /\ UNCHANGED ik
    \/ \E nodeId \in IdInputs, type \in {"rotational"} :
          /\ idCounter + 1 <= MaxPoseIds
          /\ Cardinality(AllJoints(nodes)) < MaxJoints
          /\ addJoint(nodeId, type)
          /\ UNCHANGED ik
    \/ \E j \in JointInputs, patch \in {[name |-> n] : n \in NamesInUse \cup {Str("elbow", 0)}}
                               \cup {[currentValue |-> 20]} :
          updateJoint(j[1], j[2], patch) /\ UNCHANGED ik
    \/ \E j \in JointInputs : removeJoint(j[1], j[2]) /\ UNCHANGED ik
    \/ \E id \in IdInputs : removeLink(id) /\ UNCHANGED ik
    \/ \E name \in PoseNameInputs :
          /\ idCounter + 1 <= MaxPoseIds
          /\ Len(poses) < MaxPoses
          /\ addPose(name)
          /\ UNCHANGED ik
    \/ \E id \in PoseIdInputs : applyPose(id) /\ UNCHANGED ik
    \/ \E id \in PoseIdInputs,
          name \in {PoseName("Rest", 0)} :
          renamePose(id, name) /\ UNCHANGED ik
    \/ \E id \in PoseIdInputs : removePose(id) /\ UNCHANGED ik
    \/ \E sourceId \in PoseIdInputs, targetId \in PoseIdInputs \cup {Undefined} :
          reorderPoses(sourceId, targetId) /\ UNCHANGED ik
    \/ \E scene \in PoseScenes :
          /\ idCounter + MissingJointIds(scene) + MissingPoseIds(scene) <= MaxPoseIds
          /\ importScene(scene)
          /\ UNCHANGED ik

SpecPoses == Init /\ [][NextPoses]_vars

\* C34: every key of every stored pose's values map is the name of a joint that
\* exists in the scene.
C34_PoseKeysNameJoints ==
    \A i \in 1..Len(poses) : DOMAIN poses[i].values \subseteq NamesInUse

\* the most ids drawn, and the most poses kept, in the sessions that name poses
MaxPoseNameIds == 4

MaxNamedPoses == 3

\* the names a caller renames a pose to: blank, new, and every name in use within
\* white space
RenameInputs ==
    {[EmptyPoseName EXCEPT !.pad = TRUE], PoseName("Rest", 0)}
    \cup {[poses[i].name EXCEPT !.pad = TRUE] : i \in 1..Len(poses)}

\* the builder store under the operations that name, order and remove poses
NextPoseNames ==
    \/ \E name \in PoseNameInputs :
          /\ idCounter + 1 <= MaxPoseNameIds
          /\ Len(poses) < MaxNamedPoses
          /\ addPose(name)
          /\ UNCHANGED ik
    \/ \E id \in PoseIdInputs, name \in RenameInputs :
          renamePose(id, name) /\ UNCHANGED ik
    \/ \E id \in PoseIdInputs : removePose(id) /\ UNCHANGED ik
    \/ \E sourceId \in PoseIdInputs, targetId \in PoseIdInputs \cup {Undefined} :
          reorderPoses(sourceId, targetId) /\ UNCHANGED ik
    \/ \E scene \in PoseScenes :
          /\ idCounter + MissingJointIds(scene) + MissingPoseIds(scene) <= MaxPoseNameIds
          /\ importScene(scene)
          /\ UNCHANGED ik

SpecPoseNames == Init /\ [][NextPoseNames]_vars

\* no two stored poses carry the same name
PoseNamesDistinct ==
    \A i, j \in 1..Len(poses) : i # j => poses[i].name # poses[j].name

\* the names of the stored poses
StoredPoseNames == {poses[i].name : i \in 1..Len(poses)}

\* the name a caller passed is blank, or another pose than the first with this id
\* carries it
RenameRefused(id, name) ==
    \/ [name EXCEPT !.pad = FALSE] = EmptyPoseName
    \/ \E idx \in 1..Len(poses) :
          idx # findPoseIndex(poses, id) /\ poses[idx].name = [name EXCEPT !.pad = FALSE]

\* C35: pose names are pairwise distinct in every state; addPose appends one pose
\* whose name no pose carried before; renamePose with a blank name, or with a name
\* another pose carries, changes nothing in the store.
C35_PoseNamesDistinct ==
    /\ []PoseNamesDistinct
    /\ [][/\ last'.op = "addPose" =>
                /\ Len(poses') = Len(poses) + 1
                /\ SubSeq(poses', 1, Len(poses)) = poses
                /\ poses'[Len(poses')].name \notin StoredPoseNames
          /\ \A id \in PoseIdInputs, name \in RenameInputs :
                (RenameRefused(id, name) /\ renamePose(id, name)) =>
                    UNCHANGED <<nodes, nodeOrder, rootId, selectedId, connectMode,
                                connectSourceId, poses, networkLog, simulationPlaying,
                                simulationTime, idCounter, networkEventCounter>>]_vars

\* a pose was added under a name in use and got a suffixed name, and a rename to the
\* name of another pose is the latest call
C35_Witness ==
    /\ last.op = "renamePose"
    /\ Len(poses) = 3
    /\ \E i \in 1..Len(poses) : poses[i].name.dup # <<>> /\ poses[i].id.base = "pose"
    /\ \E id \in PoseIdInputs \ {GhostId}, name \in RenameInputs :
          name.base # "" /\ RenameRefused(id, name)

\* the most ids drawn in the sessions that connect links
MaxConnectIds == 3

\* imported files: a chain of three links, and a file without links
ConnectScenes ==
    {[rootId |-> Str("base", 0),
      nodes |-> <<FileLink("base", Undefined, <<Str("arm", 0)>>),
                  FileLink("arm", Str("base", 0), <<Str("tool", 0)>>),
                  FileLink("tool", Str("arm", 0), <<>>)>>],
     [rootId |-> Str("base", 0), nodes |-> <<>>]}

\* the builder store under connect mode, selection of existing links, link creation
\* and removal, file import and reset
NextConnect ==
    \/ \E kind \in {"box"} :
          idCounter + 2 <= MaxConnectIds /\ addLink(kind) /\ UNCHANGED ik
    \/ \E id \in IdInputs : removeLink(id) /\ UNCHANGED ik
    \/ \E id \in (DOMAIN nodes) \cup {Undefined} : selectNode(id) /\ UNCHANGED ik
    \/ startConnection /\ UNCHANGED ik
    \/ cancelConnection /\ UNCHANGED ik
    \/ \E id \in IdInputs : completeConnection(id) /\ UNCHANGED ik
    \/ \E scene \in ConnectScenes : importScene(scene) /\ UNCHANGED ik
    \/ idCounter + 1 <= MaxConnectIds /\ resetScene /\ UNCHANGED ik

SpecConnect == Init /\ [][NextConnect]_vars

\* C36: connectSourceId is defined only while connectMode is true, and then it names
\* an existing node.
C36_ConnectSourceExists ==
    Truthy(connectSourceId) => connectMode /\ Has(nodes, connectSourceId)

\* the most ids drawn in the sessions that create ids
MaxCreatedIds == 7

\* imported files whose ids are distinct: a joint and a pose without ids beside ones
\* whose ids end in the next numbers of the counter; and a file whose ids end in
\* numbers beyond the counter
IdScenes ==
    {scene \in PoseScenes : Has(scene.nodes[1].node.joints[2], "id")
                            /\ scene.nodes[1].node.joints[2].id = Str("joint", 2)}
    \cup
    {[rootId |-> Str("link", 4),
      nodes |-> <<[key |-> Str("link", 4),
                   node |-> [id |-> Str("link", 4),
                             joints |-> <<[id |-> Str("joint", 3), name |-> Str("arm", 0)]>>]]>>,
      poses |-> <<[id |-> Str("pose", 2), name |-> PoseName("Home", 0)]>>]}

\* the builder store under the operations that draw ids
NextIds ==
    \/ \E kind \in {"box"} :
          /\ idCounter + 2 <= MaxCreatedIds
          /\ Cardinality(AllJoints(nodes)) < MaxJoints
          /\ addLink(kind)
          /\ UNCHANGED ik
    \/ \E nodeId \in IdInputs, type \in {"rotational"} :
          /\ idCounter + 1 <= MaxCreatedIds
          /\ Cardinality(AllJoints(nodes)) < MaxJoints
          /\ addJoint(nodeId, type)
          /\ UNCHANGED ik
    \/ \E name \in PoseNameInputs :
          /\ idCounter + 1 <= MaxCreatedIds
          /\ Len(poses) < MaxPoses
          /\ addPose(name)
          /\ UNCHANGED ik
    \/ \E scene \in IdScenes :
          /\ idCounter + MissingJointIds(scene) + MissingPoseIds(scene) <= MaxCreatedIds
          /\ importScene(scene)
          /\ UNCHANGED ik
    \/ idCounter + 1 <= MaxCreatedIds /\ resetScene /\ UNCHANGED ik

SpecIds == Init /\ [][NextIds]_vars

\* no two nodes, and no two poses, carry one id
NodeIdsUnique == \A k1, k2 \in DOMAIN nodes : k1 # k2 => nodes[k1].id # nodes[k2].id

PoseIdsUnique == \A i, j \in 1..Len(poses) : i # j => poses[i].id # poses[j].id

\* C37: node ids, joint ids and pose ids are each pairwise distinct after any sequence
\* of addLink, addJoint, addPose, resetScene and importScene of files whose own ids are
\* distinct, some of whose joints and poses lack ids.
C37_CreatedIdsDistinct ==
    NodeIdsUnique /\ JointIdsUnique /\ PoseIdsUnique

\* ------------------------------ simulator TCP bridge (simulator/electron main)
\* The bridge state is held in ik: pc ("running" or "quit"), platform, window
\* (mainWindow is not null), status (currentStatus), client (the socket tcpClient
\* names: "none" for null, "connecting", "open", and "failed" or "ended" once net has
\* destroyed the socket itself and has yet to emit 'error' or 'close'), alive (the
\* sockets created and not destroyed), request (the promise of the tcp-connect call
\* whose handlers the client socket carries: "none", "pending", "success",
\* "failure") and abandoned (promises still pending whose socket lost its
\* listeners), message (currentMessage), error (the message of the error net
\* reported last) and shown (the status last sent to the window, "none" without a
\* window).

\* the most promises left behind in the sessions explored
MaxAbandoned == 3

\* broadcastStatus(status): the window, if any, is told
broadcastStatus(bridge, status, message) ==
    [bridge EXCEPT !.status = status,
                   !.message = message,
                   !.shown = IF bridge.window THEN status ELSE @]

\* socket.destroyed of the client socket
clientDestroyed(bridge) == bridge.client \in {"failed", "ended"}

\* disposeTcpClient(notify): removeAllListeners() leaves a pending promise without
\* its resolve handlers; destroy() ends the socket
disposeTcpClient(bridge, notify) ==
    LET disposed == [bridge EXCEPT
                        !.client = "none",
                        !.alive = IF bridge.client \in {"connecting", "open"} THEN @ - 1 ELSE @,
                        !.request = "none",
                        !.abandoned = IF bridge.request = "pending" THEN @ + 1 ELSE @]
    IN IF notify THEN broadcastStatus(disposed, "disconnected", "undefined") ELSE disposed

\* ipcMain.handle('tcp-connect') up to the await: connectTcp disposes the previous
\* client, creates a socket and broadcasts 'connecting'
tcpConnect ==
    /\ ik.pc = "running" /\ ik.window
    /\ ik.request = "pending" => ik.abandoned < MaxAbandoned
    /\ ik' = broadcastStatus([disposeTcpClient(ik, FALSE) EXCEPT !.client = "connecting",
                                                                 !.alive = @ + 1,
                                                                 !.request = "pending"],
                             "connecting", "undefined")
    /\ UNCHANGED storeVars

\* ipcMain.handle('tcp-disconnect')
tcpDisconnect ==
    /\ ik.pc = "running" /\ ik.window
    /\ ik.request = "pending" => ik.abandoned < MaxAbandoned
    /\ ik' = disposeTcpClient(ik, TRUE)
    /\ UNCHANGED storeVars

\* the socket's 'connect' event: handleConnect
socketConnect ==
    /\ ik.pc = "running"
    /\ ik.client = "connecting"
    /\ ik' = broadcastStatus([ik EXCEPT !.client = "open", !.request = "success"],
                             "connected", "undefined")
    /\ UNCHANGED storeVars

\* net destroys the socket after a failure; 'error' and 'close' are emitted later
socketFails ==
    /\ ik.pc = "running"
    /\ ik.client \in {"connecting", "open"}
    /\ ik' = [ik EXCEPT !.client = "failed",
                        !.alive = @ - 1,
                        !.error = IF ik.client = "connecting" THEN "ECONNREFUSED"
                                  ELSE "ECONNRESET"]
    /\ UNCHANGED storeVars

\* net destroys the socket after the peer ended the connection; 'close' is emitted
\* later
socketEnds ==
    /\ ik.pc = "running"
    /\ ik.client = "open"
    /\ ik' = [ik EXCEPT !.client = "ended", !.alive = @ - 1]
    /\ UNCHANGED storeVars

\* the socket's 'error' event: handleError, and the rest of the tcp-connect handler
\* when the promise was still pending
handleError ==
    /\ ik.pc = "running"
    /\ ik.client = "failed"
    /\ ik' = [disposeTcpClient(broadcastStatus(ik, "error", ik.error), FALSE) EXCEPT
                 !.abandoned = ik.abandoned,
                 !.request = IF ik.request = "pending" THEN "failure" ELSE "none"]
    /\ UNCHANGED storeVars

\* the socket's 'close' event
handleClose ==
    /\ ik.pc = "running"
    /\ ik.client = "ended"
    /\ ik' = disposeTcpClient(broadcastStatus(ik, "disconnected", "undefined"), FALSE)
    /\ UNCHANGED storeVars

\* ipcMain.on('send-joint-state'): payload is "object", "unserialisable" (an object
\* JSON.stringify throws on) or "null"
sendJointState(payload) ==
    /\ ik.pc = "running" /\ ik.window
    /\ (payload = "unserialisable" /\ ik.request = "pending") => ik.abandoned < MaxAbandoned
    /\ IF payload = "null" \/ ik.client = "none" \/ clientDestroyed(ik) THEN UNCHANGED ik
       ELSE IF payload = "object" THEN UNCHANGED ik
       ELSE ik' = disposeTcpClient(broadcastStatus(ik, "error", "not serialisable"), FALSE)
    /\ UNCHANGED storeVars

\* the last window closes: 'closed' clears mainWindow, 'window-all-closed' disposes
\* the client and quits except on macOS
windowAllClosed ==
    /\ ik.pc = "running" /\ ik.window
    /\ ik.request = "pending" => ik.abandoned < MaxAbandoned
    /\ ik' = [disposeTcpClient(ik, FALSE) EXCEPT
                 !.window = FALSE,
                 !.shown = "none",
                 !.pc = IF ik.platform = "darwin" THEN "running" ELSE "quit"]
    /\ UNCHANGED storeVars

\* app.on('activate') without windows: createWindow and broadcastStatus of the
\* current status
activate ==
    /\ ik.pc = "running" /\ ~ik.window
    /\ ik' = broadcastStatus([ik EXCEPT !.window = TRUE], ik.status, ik.message)
    /\ UNCHANGED storeVars

\* app.whenReady(): the first window, no client, status 'disconnected'
InitBridge ==
    /\ InitStore
    /\ ik \in {[pc |-> "running", platform |-> platform, window |-> TRUE,
                status |-> "disconnected", client |-> "none", alive |-> 0,
                request |-> "none", abandoned |-> 0, shown |-> "disconnected",
                message |-> "undefined", error |-> "undefined"] :
               platform \in {"darwin", "linux"}}

NextBridge ==
    \/ tcpConnect
    \/ tcpDisconnect
    \/ socketConnect
    \/ socketFails
    \/ socketEnds
    \/ handleError
    \/ handleClose
    \/ \E payload \in {"object", "unserialisable", "null"} : sendJointState(payload)
    \/ windowAllClosed
    \/ activate

SpecBridge == InitBridge /\ [][NextBridge]_vars

\* C38: whenever the status is 'connected' the client socket exists and is not
\* destroyed, and at most one socket is alive.
C38_ConnectedHasLiveSocket ==
    ik.pc = "running" =>
        /\ ik.status = "connected" => ik.client \in {"connecting", "open"}
        /\ ik.alive <= 1

\* the socket of a connection attempt reports connect or error, and the events net
\* has queued are delivered
SpecBridgeFair ==
    /\ SpecBridge
    /\ WF_vars(socketConnect \/ socketFails)
    /\ WF_vars(handleError)
    /\ WF_vars(handleClose)

\* the tcp-connect promises not yet resolved
PendingRequests == (IF ik.request = "pending" THEN 1 ELSE 0) + ik.abandoned

\* C39: every tcp-connect request is eventually resolved, also when another
\* tcp-connect or a tcp-disconnect arrives while it is connecting.
C39_ConnectRequestsResolve ==
    (PendingRequests > 0) ~> (PendingRequests = 0 \/ ik.pc = "quit")

\* ------------------------------------------ builder autosave effect (App.tsx)
\* The effect's state is held in ik: pc ("mounted", "unloading" after beforeunload,
\* "unmounted"), bridge (window.api.writeAutosave exists), scene (the
\* serialization of the store's exportScene()), saveTimer (armed or not),
\* lastSerializedScene, stored (what this effect has written last to the autosave
\* file or to the localStorage item, "" for nothing yet), and outcome (what the latest persistScene call did: "none",
\* "skipped", "written", "failed").

\* the serializations a store can take in the sessions explored
SceneTexts == {"scene-a", "scene-b", "scene-c"}

\* persistScene(): succeeds tells whether writeAutosave resolves, or setItem returns
persistScene(state, succeeds) ==
    IF state.scene = state.lastSerializedScene THEN [state EXCEPT !.outcome = "skipped"]
    ELSE [state EXCEPT !.lastSerializedScene = state.scene,
                       !.stored = IF succeeds THEN state.scene ELSE @,
                       !.outcome = IF succeeds THEN "written" ELSE "failed"]

\* useSceneStore.subscribe(() => scheduleSave()): any set() of the store, whether or
\* not the exported scene differs
storeChanged(scene) ==
    /\ ik.pc = "mounted"
    /\ ik' = [ik EXCEPT !.scene = scene, !.saveTimer = TRUE, !.outcome = "none"]
    /\ UNCHANGED storeVars

\* the debounce timer fires
saveTimerFires(succeeds) ==
    /\ ik.pc = "mounted"
    /\ ik.saveTimer
    /\ ik' = persistScene([ik EXCEPT !.saveTimer = FALSE], succeeds)
    /\ UNCHANGED storeVars

\* handleBeforeUnload: flushSave()
beforeUnload(succeeds) ==
    /\ ik.pc = "mounted"
    /\ ik' = persistScene([ik EXCEPT !.saveTimer = FALSE, !.pc = "unloading"], succeeds)
    /\ UNCHANGED storeVars

\* the effect's cleanup: unsubscribe and flushSave()
unmount(succeeds) ==
    /\ ik.pc \in {"mounted", "unloading"}
    /\ ik' = persistScene([ik EXCEPT !.saveTimer = FALSE, !.pc = "unmounted"], succeeds)
    /\ UNCHANGED storeVars

\* the effect has run: nothing saved yet by this mount
InitAutosave ==
    /\ InitStore
    /\ ik \in {[pc |-> "mounted", bridge |-> bridge, scene |-> scene, saveTimer |-> FALSE,
                lastSerializedScene |-> "", stored |-> "", outcome |-> "none"] :
               bridge \in BOOLEAN, scene \in SceneTexts}

NextAutosave ==
    \/ \E scene \in SceneTexts : storeChanged(scene)
    \/ \E succeeds \in BOOLEAN : saveTimerFires(succeeds)
    \/ \E succeeds \in BOOLEAN : beforeUnload(succeeds)
    \/ \E succeeds \in BOOLEAN : unmount(succeeds)

SpecAutosave == InitAutosave /\ [][NextAutosave]_vars

\* C40: a persist call, made when the timer fires or at beforeunload or unmount,
\* leaves the write out exactly when the scene equals the one persisted last.
C40_WrittenUnlessPersisted ==
    [][ik'.outcome # "none" =>
          (ik'.outcome = "skipped" <=> ik'.scene = ik.stored)]_vars

====
